---- MODULE Spec2Model ----
(***************************************************************************)
(* A model of hxtk/aip's query package: the ordering comparator            *)
(* (Comparer / Less / validateFieldPath / getFieldPathValue /              *)
(* compareValues) and the pagination cursor (NewCursor / DecodeCursor /    *)
(* CursorFilter / pruneMessage / copyFieldPath / serializeOrderByText).    *)
(*                                                                         *)
(* Records are protobuf messages seen through protoreflect.  A message is  *)
(* a TLA+ record with one entry per field plus `has`, which is FALSE for   *)
(* the empty read-only message that Get returns for an unset singular      *)
(* message field.  Strings and byte strings are sequences of byte values.  *)
(***************************************************************************)
EXTENDS Integers, Sequences, FiniteSets, TLC

VARIABLES
    pc,        \* what the caller did last
    orderBy,   \* the []OrderBy slice the caller handed to the last call
    closure,   \* the closure the last compile returned (or none)
    compErr,   \* TRUE when the last compile returned an error
    argA,      \* first record of the last closure call
    argB,      \* second record of the last closure call
    out,       \* what the last closure call produced
    cursor,    \* the record, context and key of the last NewCursor call
    tok,       \* what the last NewCursor call returned
    sealed,    \* what the AEAD has encrypted so far
    decArgs,   \* the order, context and key of the last DecodeCursor call
    decoded,   \* what the last DecodeCursor call returned
    flipped,   \* the bit of the token that was flipped before decoding
    filter,    \* the *Filter the caller handed to the last ProtoFilter call
    predicate, \* the closure the last ProtoFilter call returned (or none)
    filterErr, \* TRUE when the last ProtoFilter call returned an error
    rec,       \* the record of the last call of the predicate
    matched,   \* what the last call of the predicate returned
    text,      \* the tokens of the filter string of the last ParseFilter call
    parsed,    \* what the last ParseFilter call returned
    mergeArgs, \* the two slices handed to the last MergeWithDefaultOrder call
    merged,    \* its result, and the two slices as the call left them
    sqlOrder,  \* the order handed to the last OrderByClause call
    clause,    \* what the last OrderByClause call returned
    usedBefore, \* the columns that the calls before the last one rendered
    maskArgs,  \* the mode and the paths of the last masks.New call
    maskOut,   \* what the last masks.New call returned
    pruneArgs, \* the message (as it was) and the mask of the last PruneMessage
    pruneOut,  \* the message as that call left it, and the error it returned
    rpcReq,    \* the call that reached the interceptor: kind, schema, header
    rpcConn,   \* the connection the handler was given: wrapped or not, mask
    invoked,   \* how often the interceptor has called the wrapped handler
    handed,    \* the messages the handler returned or sent, as it made them
    sent,      \* the messages that went on to the client
    pruneCalls, \* how often the interceptor has called PruneMessage
    rpcErr,    \* the error the interceptor returned ("" for nil)
    resolveArgs, \* the record and the member of the last resolveMemberValue
    resolveOut,  \* what that call returned, or that it panicked
    validated    \* the order as it was when the last compile validated it

vars ==
    <<pc, orderBy, closure, compErr, argA, argB, out,
      cursor, tok, sealed, decArgs, decoded, flipped,
      filter, predicate, filterErr, rec, matched, text, parsed,
      mergeArgs, merged, sqlOrder, clause, usedBefore,
      maskArgs, maskOut, pruneArgs, pruneOut,
      rpcReq, rpcConn, invoked, handed, sent, pruneCalls, rpcErr,
      resolveArgs, resolveOut, validated>>

resolveVars == <<resolveArgs, resolveOut>>

rpcVars == <<rpcReq, rpcConn, invoked, handed, sent, pruneCalls, rpcErr>>

maskVars == <<maskArgs, maskOut, pruneArgs, pruneOut, rpcVars>>

sqlVars == <<mergeArgs, merged, sqlOrder, clause, usedBefore>>

filterVars == <<filter, predicate, filterErr, rec, matched, text, parsed>>

orderVars == <<closure, compErr, argA, argB, out, validated>>

cursorVars == <<cursor, tok, sealed, decArgs, decoded, flipped>>

----------------------------------------------------------------------------
(* Bounds of the model. *)

\* longest order specification the caller builds
MaxKeys == 2

----------------------------------------------------------------------------
(* Strings: byte sequences.  "a" and "b" are enough to order. *)

EmptyStr == << >>
StrA == <<97>>
StrB == <<98>>

RECURSIVE StringsCompare(_, _)
\* strings.Compare: lexicographic on bytes, -1 / 0 / +1
StringsCompare(x, y) ==
    IF x = << >> /\ y = << >> THEN 0
    ELSE IF x = << >> THEN -1
    ELSE IF y = << >> THEN 1
    ELSE IF Head(x) < Head(y) THEN -1
    ELSE IF Head(x) > Head(y) THEN 1
    ELSE StringsCompare(Tail(x), Tail(y))

----------------------------------------------------------------------------
(* The record type.  Book and Author are the messages of the tests         *)
(* (title, author, authors, reviews, name); pages, in_print and price add  *)
(* one field for each further class of kind that compareValues'            *)
(* type switch tells apart (integer, bool, everything else).               *)

NoMsg == "none"

Fd(name, num, kind, card, msg, isMap) ==
    [name |-> name, num |-> num, kind |-> kind, card |-> card,
     msg |-> msg, isMap |-> isMap]

\* Fields().ByName(...) of a name the message does not have
NilFd == Fd("", 0, "none", "none", NoMsg, FALSE)

Schema ==
    [Book |->
        [title    |-> Fd("title", 1, "string", "optional", NoMsg, FALSE),
         author   |-> Fd("author", 2, "message", "optional", "Author", FALSE),
         authors  |-> Fd("authors", 3, "message", "repeated", "Author", FALSE),
         reviews  |-> Fd("reviews", 4, "message", "repeated", "ReviewsEntry", TRUE),
         name     |-> Fd("name", 6, "string", "optional", NoMsg, FALSE),
         pages    |-> Fd("pages", 7, "int32", "optional", NoMsg, FALSE),
         in_print |-> Fd("in_print", 8, "bool", "optional", NoMsg, FALSE),
         price    |-> Fd("price", 9, "double", "optional", NoMsg, FALSE)],
     Author |->
        [given_name  |-> Fd("given_name", 1, "string", "optional", NoMsg, FALSE),
         family_name |-> Fd("family_name", 2, "string", "optional", NoMsg, FALSE)],
     ReviewsEntry |->
        [key   |-> Fd("key", 1, "string", "optional", NoMsg, FALSE),
         value |-> Fd("value", 2, "string", "optional", NoMsg, FALSE)],
     \* a record with a Book below it, for the paths that lead through the
     \* repeated and map fields of a nested record
     Shelf |->
        [book  |-> Fd("book", 1, "message", "optional", "Book", FALSE),
         books |-> Fd("books", 2, "message", "repeated", "Book", FALSE)]]

\* desc.Fields().ByName(seg)
ByName(desc, seg) ==
    IF seg \in DOMAIN Schema[desc] THEN Schema[desc][seg] ELSE NilFd

\* fd.Message() != nil
IsMessageField(fd) == fd.msg # NoMsg

Author(has, g, f) == [has |-> has, given_name |-> g, family_name |-> f]

\* the empty read-only Author that Get returns when `author` is unset
NoAuthor == Author(FALSE, EmptyStr, EmptyStr)

Book(t, a, as, rv, n, p, ip, pr) ==
    [has |-> TRUE, title |-> t, author |-> a, authors |-> as, reviews |-> rv,
     name |-> n, pages |-> p, in_print |-> ip, price |-> pr]

\* new(Book): every field unset
ZeroBook == Book(EmptyStr, NoAuthor, << >>, << >>, EmptyStr, 0, FALSE, 0)

----------------------------------------------------------------------------
(* protoreflect.Value.  typ is the Go type Interface() yields; the zero    *)
(* Value{} has typ "nil".                                                  *)

Val(typ, val) == [typ |-> typ, val |-> val]

\* protoreflect.Value{}
NilValue == Val("nil", 0)

\* the Go type behind a singular field of the given kind
GoType(kind) ==
    CASE kind = "string" -> "string"
      [] kind = "int32" -> "int32"
      [] kind = "bool" -> "bool"
      [] kind = "double" -> "float64"
      [] kind = "message" -> "message"

\* m.Get(fd)
Get(m, fd) ==
    IF fd.isMap THEN Val("map", m[fd.name])
    ELSE IF fd.card = "repeated" THEN Val("list", m[fd.name])
    ELSE Val(GoType(fd.kind), m[fd.name])

\* m.Has(fd): presence of a message field, non-zero for the other kinds
Has(m, fd) ==
    IF fd.card = "repeated" THEN m[fd.name] # << >>
    ELSE IF fd.kind = "message" THEN m[fd.name].has
    ELSE IF fd.kind = "string" THEN m[fd.name] # << >>
    ELSE IF fd.kind = "bool" THEN m[fd.name]
    ELSE m[fd.name] # 0

----------------------------------------------------------------------------
(* Order specifications.  An OrderBy is a field path and a direction.      *)

Key(segments, desc) == [segments |-> segments, Descending |-> desc]

RECURSIVE validateFieldPathAnyCardinality(_, _)
\* validateFieldPath without the check of the field's cardinality
validateFieldPathAnyCardinality(desc, segments) ==
    IF segments = << >> THEN TRUE
    ELSE LET fd == ByName(desc, Head(segments)) IN
         IF fd = NilFd THEN FALSE
         ELSE validateFieldPathAnyCardinality(
                  IF IsMessageField(fd) THEN fd.msg ELSE desc, Tail(segments))

RECURSIVE validateFieldPath(_, _)
\* TRUE when the path is accepted (the Go function returns nil)
validateFieldPath(desc, segments) ==
    IF segments = << >> THEN TRUE
    ELSE LET fd == ByName(desc, Head(segments)) IN
         IF fd = NilFd THEN FALSE
         ELSE IF fd.card = "repeated" THEN FALSE
         ELSE validateFieldPath(IF IsMessageField(fd) THEN fd.msg ELSE desc,
                                Tail(segments))

RECURSIVE getFieldPathValue(_, _, _)
\* the value at the path, or Value{} where the Go function returns an error
getFieldPathValue(m, desc, segments) ==
    IF segments = << >> THEN NilValue
    ELSE LET fd == ByName(desc, Head(segments)) IN
         IF fd = NilFd THEN NilValue
         ELSE IF Len(segments) = 1 THEN Get(m, fd)
         ELSE IF ~IsMessageField(fd) \/ ~Has(m, fd) THEN NilValue
         ELSE getFieldPathValue(m[fd.name], fd.msg, Tail(segments))

\* what a call produces: a value, or a panic
Returned(v) == [panic |-> FALSE, v |-> v]
Panicked == [panic |-> TRUE, v |-> 0]
PanickedBool == [panic |-> TRUE, v |-> FALSE]

Sign(x, y) == IF x < y THEN -1 ELSE IF x > y THEN 1 ELSE 0

\* compareValues: the type switch on a, the unchecked type assertion on b
compareValues(a, b) ==
    CASE a.typ = "int32" ->
            IF b.typ # "int32" THEN Panicked ELSE Returned(Sign(a.val, b.val))
      [] a.typ = "string" ->
            IF b.typ # "string" THEN Panicked
            ELSE Returned(StringsCompare(a.val, b.val))
      [] a.typ = "bool" ->
            IF b.typ # "bool" THEN Panicked
            ELSE IF a.val = b.val THEN Returned(0)
            ELSE IF ~a.val /\ b.val THEN Returned(-1)
            ELSE Returned(1)
      [] a.typ = "nil" ->
            IF b.typ # "nil" THEN Returned(-1) ELSE Returned(1)
      [] OTHER -> Panicked

RECURSIVE compareKeys(_, _, _, _)
\* the body of the closure Comparer returns: the loop over orderBy
compareKeys(desc, order, a, b) ==
    IF order = << >> THEN Returned(0)
    ELSE LET ob == Head(order)
             av == getFieldPathValue(a, desc, ob.segments)
             bv == getFieldPathValue(b, desc, ob.segments)
             cmp == compareValues(av, bv)
         IN IF cmp.panic THEN Panicked
            ELSE IF cmp.v = 0 THEN compareKeys(desc, Tail(order), a, b)
            ELSE IF ob.Descending THEN Returned(-cmp.v)
            ELSE Returned(cmp.v)

\* Comparer's validation loop: TRUE when it returns an error
ComparerRejects(desc, order) ==
    \E i \in 1..Len(order) : ~validateFieldPath(desc, order[i].segments)

\* the closure Less returns: cmp(a, b) < 0
lessClosure(desc, order, a, b) ==
    LET c == compareKeys(desc, order, a, b) IN
    IF c.panic THEN PanickedBool ELSE Returned(c.v < 0)


----------------------------------------------------------------------------
(* proto.Marshal / proto.Unmarshal: the protobuf wire format of the record *)
(* type.  Every tag, length and varint of the modelled records fits one    *)
(* byte (field numbers below 16, payloads below 128 bytes).                *)

\* the fields of a message in field-number order
FieldOrder(desc) ==
    CASE desc = "Book" -> <<"title", "author", "authors", "reviews", "name",
                            "pages", "in_print", "price">>
      [] desc = "Author" -> <<"given_name", "family_name">>
      [] desc = "ReviewsEntry" -> <<"key", "value">>

\* a message of the type with no field set (m.New(), dst.NewField(fd))
NewMessage(desc) ==
    CASE desc = "Book" -> ZeroBook
      [] desc = "Author" -> Author(TRUE, EmptyStr, EmptyStr)
      [] desc = "ReviewsEntry" -> [has |-> TRUE, key |-> EmptyStr, value |-> EmptyStr]

\* wire types: 0 varint, 1 fixed64, 2 length-delimited
WireType(fd) ==
    CASE fd.kind \in {"int32", "bool"} -> 0
      [] fd.kind = "double" -> 1
      [] OTHER -> 2

Tag(fd) == fd.num * 8 + WireType(fd)

\* the IEEE-754 bytes, little-endian, of the doubles 0.0 and 1.0
DoubleBytes(v) ==
    IF v = 1 THEN <<0, 0, 0, 0, 0, 0, 240, 63>> ELSE <<0, 0, 0, 0, 0, 0, 0, 0>>

\* utf8.Valid on the modelled byte strings: ASCII only
ValidUTF8(str) == \A i \in 1..Len(str) : str[i] < 128

RECURSIVE Concat(_)
Concat(seqs) == IF seqs = << >> THEN << >> ELSE Head(seqs) \o Concat(Tail(seqs))

RECURSIVE MarshalFields(_, _, _)
RECURSIVE MarshalField(_, _)

\* the bytes of message m of type desc
Marshal(desc, m) == MarshalFields(desc, m, FieldOrder(desc))

\* one field: nothing for an unset field, every element of a repeated one,
\* key and value always inside a map entry
MarshalField(fd, v) ==
    IF fd.card = "repeated" THEN
        Concat([i \in 1..Len(v) |->
                   LET sub == IF fd.isMap
                              THEN <<Tag(Schema[fd.msg].key), Len(v[i].key)>> \o v[i].key
                                   \o <<Tag(Schema[fd.msg].value), Len(v[i].value)>>
                                   \o v[i].value
                              ELSE Marshal(fd.msg, v[i])
                   IN <<Tag(fd), Len(sub)>> \o sub])
    ELSE CASE fd.kind = "string" ->
                 IF v = << >> THEN << >> ELSE <<Tag(fd), Len(v)>> \o v
           [] fd.kind = "int32" -> IF v = 0 THEN << >> ELSE <<Tag(fd), v>>
           [] fd.kind = "bool" -> IF v THEN <<Tag(fd), 1>> ELSE << >>
           [] fd.kind = "double" ->
                 IF v = 0 THEN << >> ELSE <<Tag(fd)>> \o DoubleBytes(v)
           [] fd.kind = "message" ->
                 IF v.has THEN LET sub == Marshal(fd.msg, v)
                               IN <<Tag(fd), Len(sub)>> \o sub
                 ELSE << >>

MarshalFields(desc, m, names) ==
    IF names = << >> THEN << >>
    ELSE MarshalField(Schema[desc][Head(names)], m[Head(names)])
         \o MarshalFields(desc, m, Tail(names))

\* proto.Marshal refuses a string field that is not UTF-8
RECURSIVE MarshalFails(_, _)
MarshalFails(desc, m) ==
    \E n \in DOMAIN Schema[desc] :
        LET fd == Schema[desc][n] IN
        IF fd.card = "repeated" THEN
            \E i \in 1..Len(m[n]) :
                IF fd.isMap THEN ~ValidUTF8(m[n][i].key) \/ ~ValidUTF8(m[n][i].value)
                ELSE MarshalFails(fd.msg, m[n][i])
        ELSE IF fd.kind = "string" THEN ~ValidUTF8(m[n])
        ELSE IF fd.kind = "message" THEN m[n].has /\ MarshalFails(fd.msg, m[n])
        ELSE FALSE

\* the field with the given number, or NilFd
FieldByNumber(desc, num) ==
    IF \E n \in DOMAIN Schema[desc] : Schema[desc][n].num = num
    THEN Schema[desc][CHOOSE n \in DOMAIN Schema[desc] : Schema[desc][n].num = num]
    ELSE NilFd

Parsed(ok, m) == [ok |-> ok, msg |-> m]

\* how many bytes the value after a tag of wire type wt takes, 0 when the
\* input is cut short or the wire type is not one of 0, 1, 2, 5
ValueLen(wt, rest) ==
    CASE wt = 0 -> IF Len(rest) >= 1 /\ rest[1] < 128 THEN 1 ELSE 0
      [] wt = 1 -> IF Len(rest) >= 8 THEN 8 ELSE 0
      [] wt = 5 -> IF Len(rest) >= 4 THEN 4 ELSE 0
      [] wt = 2 -> IF Len(rest) >= 1 /\ rest[1] < 128 /\ Len(rest) >= 1 + rest[1]
                   THEN 1 + rest[1] ELSE 0
      [] OTHER -> 0

\* replace the entry with e's key, or append e
MapPut(entries, e) ==
    IF \E i \in 1..Len(entries) : entries[i].key = e.key
    THEN [i \in 1..Len(entries) |->
             IF entries[i].key = e.key THEN e ELSE entries[i]]
    ELSE Append(entries, e)

RECURSIVE Unmarshal(_, _, _)
\* merge the wire bytes b into message m of type desc; on an error the
\* message keeps what was parsed before it
Unmarshal(desc, b, m) ==
    IF b = << >> THEN Parsed(TRUE, m)
    ELSE LET tag == Head(b)
             num == tag \div 8
             wt == tag % 8
             rest == Tail(b)
             n == ValueLen(wt, rest)
             fd == FieldByNumber(desc, num)
             after == SubSeq(rest, n + 1, Len(rest))
             payload == SubSeq(rest, 2, n)
         IN IF tag >= 128 \/ num = 0 \/ n = 0 THEN Parsed(FALSE, m)
            ELSE IF fd = NilFd \/ WireType(fd) # wt THEN Unmarshal(desc, after, m)
            ELSE IF fd.kind = "string" THEN
                IF ValidUTF8(payload)
                THEN Unmarshal(desc, after, [m EXCEPT ![fd.name] = payload])
                ELSE Parsed(FALSE, m)
            ELSE IF fd.kind = "int32" THEN
                Unmarshal(desc, after, [m EXCEPT ![fd.name] = rest[1]])
            ELSE IF fd.kind = "bool" THEN
                Unmarshal(desc, after, [m EXCEPT ![fd.name] = rest[1] # 0])
            ELSE IF fd.kind = "double" THEN
                Unmarshal(desc, after,
                          [m EXCEPT ![fd.name] =
                              IF SubSeq(rest, 1, 8) = DoubleBytes(0) THEN 0 ELSE 1])
            ELSE LET start == IF fd.card = "repeated" \/ ~m[fd.name].has
                              THEN NewMessage(fd.msg) ELSE m[fd.name]
                     sub == Unmarshal(fd.msg, payload, start)
                     entry == [key |-> sub.msg.key, value |-> sub.msg.value]
                 IN IF ~sub.ok THEN
                        Parsed(FALSE, IF fd.card = "repeated" THEN m
                                      ELSE [m EXCEPT ![fd.name] = sub.msg])
                    ELSE IF fd.isMap THEN
                        Unmarshal(desc, after,
                                  [m EXCEPT ![fd.name] = MapPut(m[fd.name], entry)])
                    ELSE IF fd.card = "repeated" THEN
                        Unmarshal(desc, after,
                                  [m EXCEPT ![fd.name] = Append(m[fd.name], sub.msg)])
                    ELSE Unmarshal(desc, after, [m EXCEPT ![fd.name] = sub.msg])

----------------------------------------------------------------------------
(* base64.RawURLEncoding: the URL-safe alphabet, no padding, and the       *)
(* decoder as encoding/base64 runs it when Strict() was not asked for.     *)

\* the character of a 6-bit value: A-Z, a-z, 0-9, '-', '_'
B64Char(v) ==
    IF v < 26 THEN 65 + v
    ELSE IF v < 52 THEN 97 + (v - 26)
    ELSE IF v < 62 THEN 48 + (v - 52)
    ELSE IF v = 62 THEN 45
    ELSE 95

IsB64Char(c) ==
    \/ c \in 65..90
    \/ c \in 97..122
    \/ c \in 48..57
    \/ c = 45
    \/ c = 95

\* decodeMap: the 6-bit value of an alphabet character
B64Value(c) ==
    IF c \in 65..90 THEN c - 65
    ELSE IF c \in 97..122 THEN c - 97 + 26
    ELSE IF c \in 48..57 THEN c - 48 + 52
    ELSE IF c = 45 THEN 62
    ELSE 63

RECURSIVE EncodeToString(_)
\* three bytes make four characters; one or two left over make two or
\* three characters whose unused low bits are zero
EncodeToString(b) ==
    IF b = << >> THEN << >>
    ELSE IF Len(b) = 1 THEN
        <<B64Char(b[1] \div 4), B64Char((b[1] % 4) * 16)>>
    ELSE IF Len(b) = 2 THEN
        <<B64Char(b[1] \div 4), B64Char((b[1] % 4) * 16 + b[2] \div 16),
          B64Char((b[2] % 16) * 4)>>
    ELSE <<B64Char(b[1] \div 4), B64Char((b[1] % 4) * 16 + b[2] \div 16),
           B64Char((b[2] % 16) * 4 + b[3] \div 64), B64Char(b[3] % 64)>>
         \o EncodeToString(SubSeq(b, 4, Len(b)))

RECURSIVE DropNewlines(_)
\* the decoder skips '\r' and '\n' wherever they stand
DropNewlines(str) ==
    IF str = << >> THEN << >>
    ELSE IF Head(str) \in {10, 13} THEN DropNewlines(Tail(str))
    ELSE <<Head(str)>> \o DropNewlines(Tail(str))

RECURSIVE DecodeQuanta(_)
\* the bytes of clean alphabet characters; the bits a final short quantum
\* does not use are dropped unread
DecodeQuanta(str) ==
    IF str = << >> THEN << >>
    ELSE LET v == [i \in 1..4 |-> IF i <= Len(str) THEN B64Value(str[i]) ELSE 0]
             b1 == v[1] * 4 + v[2] \div 16
             b2 == (v[2] % 16) * 16 + v[3] \div 4
             b3 == (v[3] % 4) * 64 + v[4]
         IN IF Len(str) = 2 THEN <<b1>>
            ELSE IF Len(str) = 3 THEN <<b1, b2>>
            ELSE <<b1, b2, b3>> \o DecodeQuanta(SubSeq(str, 5, Len(str)))

\* DecodeString: [ok, bytes]; a character outside the alphabet or a final
\* quantum of a single character is a CorruptInputError
DecodeString(str) ==
    LET clean == DropNewlines(str) IN
    IF (\E i \in 1..Len(clean) : ~IsB64Char(clean[i])) \/ Len(clean) % 4 = 1
    THEN [ok |-> FALSE, bytes |-> << >>]
    ELSE [ok |-> TRUE, bytes |-> DecodeQuanta(clean)]

----------------------------------------------------------------------------
(* The associated data that binds a token to its order and context.        *)

\* the bytes of a field name
NameBytes(n) ==
    CASE n = "title" -> <<116, 105, 116, 108, 101>>
      [] n = "author" -> <<97, 117, 116, 104, 111, 114>>
      [] n = "authors" -> <<97, 117, 116, 104, 111, 114, 115>>
      [] n = "reviews" -> <<114, 101, 118, 105, 101, 119, 115>>
      [] n = "name" -> <<110, 97, 109, 101>>
      [] n = "pages" -> <<112, 97, 103, 101, 115>>
      [] n = "in_print" -> <<105, 110, 95, 112, 114, 105, 110, 116>>
      [] n = "price" -> <<112, 114, 105, 99, 101>>
      [] n = "given_name" -> <<103, 105, 118, 101, 110, 95, 110, 97, 109, 101>>
      [] n = "family_name" ->
            <<102, 97, 109, 105, 108, 121, 95, 110, 97, 109, 101>>
      [] n = "book" -> <<98, 111, 111, 107>>
      [] n = "books" -> <<98, 111, 111, 107, 115>>
      [] n = "smith" -> <<115, 109, 105, 116, 104>>
      [] n = "no_such_field" ->
            <<110, 111, 95, 115, 117, 99, 104, 95, 102, 105, 101, 108, 100>>

RECURSIVE Join(_, _)
\* strings.Join
Join(parts, sep) ==
    IF parts = << >> THEN << >>
    ELSE IF Len(parts) = 1 THEN Head(parts)
    ELSE Head(parts) \o sep \o Join(Tail(parts), sep)

\* FieldPath.canonical: the segments joined by '.'
Canonical(segments) ==
    Join([i \in 1..Len(segments) |-> NameBytes(segments[i])], <<46>>)

\* "asc" / "desc"
DirBytes(descending) ==
    IF descending THEN <<100, 101, 115, 99>> ELSE <<97, 115, 99>>

\* serializeOrderByText writing "asc" for every key
serializeOrderByTextAlwaysAsc(order) ==
    Join([i \in 1..Len(order) |->
             Canonical(order[i].segments) \o <<58>> \o DirBytes(FALSE)],
         <<124>>)

\* serializeOrderByText: "path:asc|path:desc|..."
serializeOrderByText(order) ==
    Join([i \in 1..Len(order) |->
             Canonical(order[i].segments) \o <<58>> \o DirBytes(order[i].Descending)],
         <<124>>)

\* slices.Concat(aad, []byte{0}, serializeOrderByText(order))
AssociatedData(aad, order) == aad \o <<0>> \o serializeOrderByText(order)

----------------------------------------------------------------------------
(* The pagination cursor.                                                  *)

\* what copyFieldPath / pruneMessage produce: st is "ok", "error" or "panic"
Copied(st, dst) == [st |-> st, dst |-> dst]

RECURSIVE copyFieldPath(_, _, _, _)
\* copy the field at the path from src into dst.  dst.Set panics when it
\* is handed the empty read-only message of an unset message field.
copyFieldPath(src, desc, dst, segments) ==
    IF segments = << >> THEN Copied("ok", dst)
    ELSE LET fd == ByName(desc, Head(segments)) IN
         IF fd = NilFd THEN Copied("error", dst)
         ELSE IF fd.card = "repeated" THEN Copied("error", dst)
         ELSE IF Len(segments) = 1 THEN
            IF fd.kind = "message" /\ ~src[fd.name].has THEN Copied("panic", dst)
            ELSE Copied("ok", [dst EXCEPT ![fd.name] = src[fd.name]])
         ELSE IF ~IsMessageField(fd) THEN Copied("error", dst)
         ELSE LET childDst == IF Has(dst, fd) THEN dst[fd.name]
                              ELSE NewMessage(fd.msg)
                  sub == copyFieldPath(src[fd.name], fd.msg, childDst,
                                       Tail(segments))
              IN Copied(sub.st, [dst EXCEPT ![fd.name] = sub.dst])

RECURSIVE pruneInto(_, _, _, _)
\* pruneMessage's loop over the order
pruneInto(m, desc, pruned, order) ==
    IF order = << >> THEN Copied("ok", pruned)
    ELSE LET c == copyFieldPath(m, desc, pruned, Head(order).segments) IN
         IF c.st # "ok" THEN Copied(c.st, pruned)
         ELSE pruneInto(m, desc, c.dst, Tail(order))

\* pruneMessage: a new message holding only the fields the order names
pruneMessage(m, desc, order) == pruneInto(m, desc, NewMessage(desc), order)

(* The AEAD is the caller's tink primitive, taken as ideal: Decrypt        *)
(* returns a plaintext only for a ciphertext that Encrypt produced under   *)
(* the same key and the same associated data.  `sealed` records what was   *)
(* encrypted.  A ciphertext is AeadOverhead bytes longer than its          *)
(* plaintext; its bytes are the cipher's to choose.                        *)

\* bytes a ciphertext adds to its plaintext
AeadOverhead == 3

\* the ciphertext of a plaintext under a key: one byte for each byte of
\* the plaintext, then the overhead
Ciphertext(key, pt) ==
    [i \in 1..Len(pt) |-> (pt[i] + 165 + key) % 256]
    \o [i \in 1..AeadOverhead |-> 165]

\* what aead.Encrypt(pt, aad) adds to the log
Seal(key, pt, aad) ==
    [key |-> key, aad |-> aad, pt |-> pt, ct |-> Ciphertext(key, pt)]

\* aead.Decrypt(cipher, aad): [ok, pt]
Decrypt(log, key, cipher, aad) ==
    IF \E e \in log : e.key = key /\ e.ct = cipher /\ e.aad = aad
    THEN [ok |-> TRUE,
          pt |-> (CHOOSE e \in log : e.key = key /\ e.ct = cipher /\ e.aad = aad).pt]
    ELSE [ok |-> FALSE, pt |-> << >>]

\* what NewCursor returns: st is "ok", "error" or "panic"
Token(st, str) == [st |-> st, str |-> str]

\* NewCursor up to the encryption: the plaintext, or how it failed
cursorPlaintext(m, desc, order) ==
    LET p == pruneMessage(m, desc, order) IN
    IF p.st # "ok" THEN [st |-> p.st, raw |-> << >>]
    ELSE IF MarshalFails(desc, p.dst) THEN [st |-> "error", raw |-> << >>]
    ELSE [st |-> "ok", raw |-> Marshal(desc, p.dst)]

\* NewCursor: the token, and the AEAD's log after the call
NewCursor(log, m, desc, order, key, aad) ==
    LET p == cursorPlaintext(m, desc, order)
        e == Seal(key, p.raw, AssociatedData(aad, order))
    IN IF p.st # "ok" THEN [token |-> Token(p.st, << >>), log |-> log]
       ELSE [token |-> Token("ok", EncodeToString(e.ct)), log |-> log \cup {e}]

\* what DecodeCursor returns: a record and nil, or nil and an error that
\* wraps ErrInvalidPageToken
DecodeResult(err, wraps, isNil, msg) ==
    [err |-> err, wraps |-> wraps, isNil |-> isNil, msg |-> msg]

DecodeFailed == DecodeResult(TRUE, "ErrInvalidPageToken", TRUE, ZeroBook)

\* DecodeCursor handing out what proto.Unmarshal had parsed when it failed
DecodeCursorPartial(log, desc, token, order, key, aad) ==
    LET cipher == DecodeString(token) IN
    IF ~cipher.ok THEN DecodeFailed
    ELSE LET data == Decrypt(log, key, cipher.bytes, AssociatedData(aad, order)) IN
         IF ~data.ok THEN DecodeFailed
         ELSE LET u == Unmarshal(desc, data.pt, NewMessage(desc)) IN
              DecodeResult(~u.ok, IF u.ok THEN "" ELSE "ErrInvalidPageToken",
                           FALSE, u.msg)

DecodeCursor(log, desc, token, order, key, aad) ==
    LET cipher == DecodeString(token) IN
    IF ~cipher.ok THEN DecodeFailed
    ELSE LET data == Decrypt(log, key, cipher.bytes, AssociatedData(aad, order)) IN
         IF ~data.ok THEN DecodeFailed
         ELSE LET u == Unmarshal(desc, data.pt, NewMessage(desc)) IN
              IF ~u.ok THEN DecodeFailed
              ELSE DecodeResult(FALSE, "", FALSE, u.msg)

----------------------------------------------------------------------------
(* The inputs the caller draws from. *)

\* the field paths a caller names in an order
Paths ==
    { <<"title">>, <<"author", "given_name">>, <<"author">>, <<"pages">>,
      <<"in_print">>, <<"price">>, <<"authors">>, <<"reviews">>,
      <<"authors", "given_name">>, <<"no_such_field">>, <<"title", "name">> }

Keys == { Key(p, d) : p \in Paths, d \in BOOLEAN }

\* every order of at most MaxKeys keys
Orders == UNION { [1..n -> Keys] : n \in 0..MaxKeys }

\* the records the comparator is called on
Records ==
    { ZeroBook,
      [ZeroBook EXCEPT !.title = StrA],
      [ZeroBook EXCEPT !.author = Author(TRUE, EmptyStr, EmptyStr)],
      [ZeroBook EXCEPT !.author = Author(TRUE, StrA, EmptyStr)],
      [ZeroBook EXCEPT !.author = Author(TRUE, StrA, EmptyStr), !.title = StrA],
      [ZeroBook EXCEPT !.pages = 1],
      [ZeroBook EXCEPT !.in_print = TRUE],
      [ZeroBook EXCEPT !.price = 1] }

----------------------------------------------------------------------------
(* The caller of the ordering comparator. *)

\* (nil, err): no closure
NoClosure(kind) == [kind |-> kind, cursor |-> ZeroBook, isNil |-> TRUE]

Compiled(kind, order, c) ==
    /\ pc' = "compiled"
    /\ orderBy' = order
    /\ validated' = order
    /\ compErr' = ComparerRejects("Book", order)
    /\ closure' = IF ComparerRejects("Book", order) THEN NoClosure(kind)
                  ELSE [kind |-> kind, cursor |-> c, isNil |-> FALSE]
    /\ UNCHANGED <<argA, argB, out>>
    /\ UNCHANGED cursorVars
    /\ UNCHANGED filterVars
    /\ UNCHANGED <<sqlVars, maskVars,
                 resolveVars>>

\* cmp, err := Comparer[*Book](order)
CallComparer ==
    /\ pc = "start"
    /\ \E o \in Orders : Compiled("cmp", o, ZeroBook)

\* less, err := Less[*Book](order)
CallLess ==
    /\ pc = "start"
    /\ \E o \in Orders : Compiled("less", o, ZeroBook)

\* filter, err := CursorFilter(cursor, order)
CallCursorFilter ==
    /\ pc = "start"
    /\ \E o \in Orders, c \in Records : Compiled("filter", o, c)

Called(a, b, result) ==
    /\ pc' = "called"
    /\ argA' = a
    /\ argB' = b
    /\ out' = result
    /\ UNCHANGED <<orderBy, closure, compErr, validated>>
    /\ UNCHANGED cursorVars
    /\ UNCHANGED filterVars
    /\ UNCHANGED <<sqlVars, maskVars,
                 resolveVars>>

\* cmp(a, b)
InvokeComparer ==
    /\ pc = "compiled"
    /\ closure.kind = "cmp"
    /\ ~closure.isNil
    /\ \E a \in Records, b \in Records :
          Called(a, b, compareKeys("Book", orderBy, a, b))

\* less(a, b)
InvokeLess ==
    /\ pc = "compiled"
    /\ closure.kind = "less"
    /\ ~closure.isNil
    /\ \E a \in Records, b \in Records :
          Called(a, b, lessClosure("Book", orderBy, a, b))

\* filter(msg): less(cursor, msg)
InvokeCursorFilter ==
    /\ pc = "compiled"
    /\ closure.kind = "filter"
    /\ ~closure.isNil
    /\ \E m \in Records :
          Called(closure.cursor, m,
                 lessClosure("Book", orderBy, closure.cursor, m))

Init ==
    /\ pc = "start"
    /\ orderBy = << >>
    /\ closure = NoClosure("none")
    /\ compErr = FALSE
    /\ argA = ZeroBook
    /\ argB = ZeroBook
    /\ out = Returned(0)
    /\ cursor = [m |-> ZeroBook, aad |-> << >>, key |-> 0, foreign |-> FALSE]
    /\ tok = Token("none", << >>)
    /\ sealed = {}
    /\ decArgs = [order |-> << >>, aad |-> << >>, key |-> 0]
    /\ decoded = DecodeFailed
    /\ flipped = [pos |-> 0, bit |-> 0]
    /\ filter = << >>
    /\ predicate = [isNil |-> TRUE]
    /\ filterErr = FALSE
    /\ rec = ZeroBook
    /\ matched = FALSE
    /\ text = << >>
    /\ parsed = [ok |-> FALSE, filter |-> << >>]
    /\ mergeArgs = [defaultOrder |-> << >>, order |-> << >>]
    /\ merged = [result |-> << >>, defaultOrder |-> << >>, order |-> << >>]
    /\ sqlOrder = << >>
    /\ clause = [text |-> << >>, err |-> FALSE]
    /\ usedBefore = {}
    /\ maskArgs = [mode |-> "ModeRead", paths |-> << >>]
    /\ maskOut = [err |-> FALSE, fm |-> << >>]
    /\ pruneArgs = [msg |-> << >>, mask |-> << >>]
    /\ pruneOut = [msg |-> << >>, err |-> FALSE]
    /\ rpcReq = [kind |-> "unary", isProto |-> TRUE, header |-> << >>]
    /\ rpcConn = [pruning |-> FALSE, fm |-> << >>]
    /\ invoked = 0
    /\ handed = << >>
    /\ sent = << >>
    /\ pruneCalls = 0
    /\ rpcErr = ""
    /\ resolveArgs = [desc |-> "Book", m |-> ZeroBook,
                      mem |-> [Value |-> << >>, Fields |-> << >>]]
    /\ resolveOut = [err |-> FALSE, v |-> NilValue, panic |-> FALSE]
    /\ validated = << >>

NextOrder ==
    \/ CallComparer
    \/ CallLess
    \/ CallCursorFilter
    \/ InvokeComparer
    \/ InvokeLess
    \/ InvokeCursorFilter

SpecOrder == Init /\ [][NextOrder]_vars

\* the keys the caller writes into the slice after the compile: one on a
\* repeated field, which no compile accepts, and one that is valid
WrittenKeys == { Key(<<"authors">>, FALSE), Key(<<"title">>, TRUE) }

\* order[0] = key, by the caller that still holds the slice it handed to
\* Comparer, Less or CursorFilter; the closure holds the same backing array
CallerWritesOrder ==
    /\ pc = "compiled"
    /\ ~closure.isNil
    /\ orderBy = validated
    /\ Len(orderBy) > 0
    /\ \E k \in WrittenKeys :
          /\ orderBy[1] # k
          /\ orderBy' = [orderBy EXCEPT ![1] = k]
    /\ UNCHANGED <<pc, orderVars>>
    /\ UNCHANGED cursorVars
    /\ UNCHANGED filterVars
    /\ UNCHANGED <<sqlVars, maskVars, resolveVars>>

NextShared ==
    \/ CallComparer
    \/ CallLess
    \/ CallCursorFilter
    \/ CallerWritesOrder
    \/ InvokeComparer
    \/ InvokeLess
    \/ InvokeCursorFilter

SpecShared == Init /\ [][NextShared]_vars

----------------------------------------------------------------------------
(* The caller of the pagination cursor: it mints a token, and the token    *)
(* comes back - as it was, or with one bit flipped on the way - to be      *)
(* decoded.                                                                *)

\* the field paths of the orders a cursor is minted under
CursorPaths ==
    { <<"title">>, <<"author", "given_name">>, <<"author">>, <<"reviews">>,
      <<"no_such_field">>, <<"title", "name">> }

CursorKeys == { Key(p, d) : p \in CursorPaths, d \in BOOLEAN }

CursorOrders == UNION { [1..n -> CursorKeys] : n \in 0..MaxKeys }

\* the records a cursor is minted from; the last one holds a title that
\* is not UTF-8
CursorRecords ==
    { ZeroBook,
      [ZeroBook EXCEPT !.title = StrA],
      [ZeroBook EXCEPT !.author = Author(TRUE, EmptyStr, EmptyStr)],
      [ZeroBook EXCEPT !.author = Author(TRUE, StrA, EmptyStr)],
      [ZeroBook EXCEPT !.title = StrA, !.pages = 1,
                       !.author = Author(TRUE, StrA, StrB)],
      [ZeroBook EXCEPT !.title = <<200>>] }

\* the caller's context bytes (aad)
Contexts == { << >>, <<0>>, <<99>>, <<99, 0>> }

MintContexts == { <<99>>, <<99, 0>> }

\* the caller's AEAD keys
AeadKeys == { 1, 2 }

\* serialized records of another type, sealed by the same AEAD: a title
\* that is not UTF-8, a title cut short, a nested author that breaks off
\* after its given_name, and a field Book does not have
OtherPlaintexts ==
    { <<10, 1, 200>>, <<10, 5, 97>>, <<18, 5, 10, 1, 97, 18, 4>>, <<96, 1>> }

\* b with bit number `bit` flipped
FlipBit(b, bit) ==
    IF (b \div (2 ^ bit)) % 2 = 1 THEN b - 2 ^ bit ELSE b + 2 ^ bit

\* the token with one bit of its i-th byte flipped
FlipTokenBit(str, i, bit) == [str EXCEPT ![i] = FlipBit(str[i], bit)]

\* orders close to o: a direction flipped, a key appended, the last key
\* dropped
Variants(o) ==
    { [o EXCEPT ![i] = Key(o[i].segments, ~o[i].Descending)] : i \in 1..Len(o) }
    \cup { Append(o, k) : k \in CursorKeys }
    \cup { SubSeq(o, 1, Len(o) - 1) : i \in 1..Len(o) }

\* what the caller may hand to DecodeCursor with the token it was given:
\* the order, context and key of NewCursor, or one of them changed
DecodeInputs ==
    { [order |-> orderBy, aad |-> cursor.aad, key |-> k] : k \in AeadKeys }
    \cup { [order |-> orderBy, aad |-> c, key |-> cursor.key] : c \in Contexts }
    \cup { [order |-> o, aad |-> cursor.aad, key |-> cursor.key] :
              o \in Variants(orderBy) }

Minted(m, order, aad, key, foreign, t) ==
    /\ pc' = IF t.token.st = "ok" THEN "minted" ELSE "failed"
    /\ orderBy' = order
    /\ cursor' = [m |-> m, aad |-> aad, key |-> key, foreign |-> foreign]
    /\ tok' = t.token
    /\ sealed' = t.log
    /\ UNCHANGED <<decArgs, decoded, flipped>>
    /\ UNCHANGED orderVars
    /\ UNCHANGED filterVars
    /\ UNCHANGED <<sqlVars, maskVars,
                 resolveVars>>

\* tok, err := NewCursor(m, order, aead, aad)
CallNewCursor ==
    /\ pc = "start"
    /\ \E m \in CursorRecords, o \in CursorOrders, aad \in MintContexts,
          key \in AeadKeys :
          Minted(m, o, aad, key, FALSE,
                 NewCursor(sealed, m, "Book", o, key, aad))

\* NewCursor on a record of another type, under the same key and context:
\* its serialization is in OtherPlaintexts
CallNewCursorOther ==
    /\ pc = "start"
    /\ \E raw \in OtherPlaintexts, o \in { << >>, <<Key(<<"title">>, FALSE)>> },
          aad \in MintContexts, key \in AeadKeys :
          LET e == Seal(key, raw, AssociatedData(aad, o)) IN
          Minted(ZeroBook, o, aad, key, TRUE,
                 [token |-> Token("ok", EncodeToString(e.ct)),
                  log |-> sealed \cup {e}])

Decoded(str, in, flip) ==
    /\ pc' = "decoded"
    /\ tok' = Token("ok", str)
    /\ decArgs' = in
    /\ flipped' = flip
    /\ decoded' = DecodeCursor(sealed, "Book", str, in.order, in.key, in.aad)
    /\ UNCHANGED <<orderBy, cursor, sealed>>
    /\ UNCHANGED orderVars
    /\ UNCHANGED filterVars
    /\ UNCHANGED <<sqlVars, maskVars,
                 resolveVars>>

\* msg, err := DecodeCursor[Book](tok, order, aead, aad)
CallDecodeCursor ==
    /\ pc = "minted"
    /\ \E in \in DecodeInputs : Decoded(tok.str, in, [pos |-> 0, bit |-> 0])

\* the same call with the order, context and key of NewCursor, on the
\* token with one bit flipped
CallDecodeCursorTampered ==
    /\ pc = "minted"
    /\ \E i \in 1..Len(tok.str), bit \in 0..7 :
          Decoded(FlipTokenBit(tok.str, i, bit),
                  [order |-> orderBy, aad |-> cursor.aad, key |-> cursor.key],
                  [pos |-> i, bit |-> bit])

NextCursor ==
    \/ CallNewCursor
    \/ CallNewCursorOther
    \/ CallDecodeCursor
    \/ CallDecodeCursorTampered

SpecCursor == Init /\ [][NextCursor]_vars

----------------------------------------------------------------------------
(* What the specification says of the comparator, to hold the code to:     *)
(* a missing nested record reads as the zero value of the field.           *)

\* the paths that end at a string, integer or bool field
ScalarPaths ==
    { <<"title">>, <<"author", "given_name">>, <<"pages">>, <<"in_print">> }

OverScalars(order) == \A i \in 1..Len(order) : order[i].segments \in ScalarPaths

\* a.GetTitle(), a.GetAuthor().GetGivenName(), ...
Getter(m, segments) ==
    IF Len(segments) = 1 THEN m[segments[1]] ELSE m[segments[1]][segments[2]]

LeafKind(segments) ==
    IF Len(segments) = 1 THEN Schema.Book[segments[1]].kind
    ELSE Schema.Author[segments[2]].kind

\* -1, 0 or 1 as a's value at the path is below, equal to or above b's
ZeroValueCompare(segments, a, b) ==
    LET x == Getter(a, segments)
        y == Getter(b, segments)
    IN CASE LeafKind(segments) = "string" -> StringsCompare(x, y)
         [] LeafKind(segments) = "int32" -> Sign(x, y)
         [] LeafKind(segments) = "bool" ->
               IF x = y THEN 0 ELSE IF y THEN -1 ELSE 1

RECURSIVE FirstDifference(_, _, _)
\* the result of the first key the two records differ on, negated when the
\* key is descending; 0 when they differ on none
FirstDifference(order, a, b) ==
    IF order = << >> THEN 0
    ELSE LET c == ZeroValueCompare(Head(order).segments, a, b) IN
         IF c = 0 THEN FirstDifference(Tail(order), a, b)
         ELSE IF Head(order).Descending THEN -c ELSE c

RECURSIVE PassesRepeated(_, _)
\* the path passes through, or ends at, a repeated field or a map field
PassesRepeated(desc, segments) ==
    /\ segments # << >>
    /\ LET fd == ByName(desc, Head(segments)) IN
       /\ fd # NilFd
       /\ \/ fd.card = "repeated"
          \/ IsMessageField(fd) /\ PassesRepeated(fd.msg, Tail(segments))

AuthorGivenName == <<Key(<<"author", "given_name">>, FALSE)>>

----------------------------------------------------------------------------
(* The claims about the ordering comparator, under SpecOrder.              *)

\* C5: the predicate of CursorFilter(c, O) is true for m exactly when m
\* sorts strictly after c under O; it is false for c itself and for every
\* record that ties with c or precedes it.
C5_CursorFilterStrictlyAfter ==
    (pc = "called" /\ closure.kind = "filter" /\ OverScalars(orderBy)) =>
        /\ ~out.panic
        /\ out.v = (FirstDifference(orderBy, closure.cursor, argB) < 0)

\* C6: compare(a, b) = -compare(b, a) for every pair of records, so
\* compare(a, a) = 0; less(a, b) and less(b, a) are never both true.
C6_Antisymmetry ==
    /\ (pc = "called" /\ closure.kind = "cmp") =>
          LET ba == compareKeys("Book", orderBy, argB, argA) IN
          (~out.panic /\ ~ba.panic) =>
              /\ out.v = -ba.v
              /\ argA = argB => out.v = 0
    /\ (pc = "called" /\ closure.kind = "less") =>
          LET ba == lessClosure("Book", orderBy, argB, argA) IN
          (~out.panic /\ ~ba.panic) => ~(out.v /\ ba.v)

\* C7: the closure of an accepted order returns a result for every pair
\* of records and never panics, whatever the kind of the ordered field
\* and whichever side has its nested record set.
C7_ComparatorTotal == pc = "called" => ~out.panic

\* C8: under the order author.given_name a record with no author is
\* placed as a record whose given_name is "": it ties with a record whose
\* author is set and empty and with one whose author is unset, and sorts
\* before a non-empty given_name, in either argument position.
C8_MissingNestedIsZero ==
    (pc = "called" /\ closure.kind = "cmp" /\ orderBy = AuthorGivenName) =>
        /\ ~out.panic
        /\ out.v = StringsCompare(argA.author.given_name,
                                  argB.author.given_name)

\* C9: with several keys the comparator returns the signed result of the
\* first key the two records differ on, negated when that key is
\* descending; a later key is consulted whenever the earlier ones tie, and
\* the result is 0 when the records tie on every key.
C9_MultiKey ==
    (pc = "called" /\ closure.kind = "cmp" /\ Len(orderBy) > 1
        /\ OverScalars(orderBy)) =>
        /\ ~out.panic
        /\ out.v = FirstDifference(orderBy, argA, argB)

\* C10: Comparer, Less and CursorFilter return an error and no closure for
\* every order with a path that passes through or ends at a repeated
\* field or a map field.
C10_RepeatedRejected ==
    (pc # "start" /\ closure.kind \in {"cmp", "less", "filter"}
        /\ \E i \in 1..Len(orderBy) : PassesRepeated("Book", orderBy[i].segments))
    => (compErr /\ closure.isNil /\ pc = "compiled")

\* C10 happens: CursorFilter was handed the order `reviews, title` and
\* returned an error and no closure
C10_Witness ==
    /\ pc = "compiled"
    /\ closure.kind = "filter"
    /\ orderBy = <<Key(<<"reviews">>, FALSE), Key(<<"title">>, FALSE)>>
    /\ compErr
    /\ closure.isNil

----------------------------------------------------------------------------
(* What the specification says of the cursor, to hold the code to.         *)

Named(order, segments) == \E i \in 1..Len(order) : order[i].segments = segments

\* the fields of Author that the order names
ProjectedAuthor(a, order) ==
    Author(TRUE,
           IF Named(order, <<"author", "given_name">>) THEN a.given_name ELSE EmptyStr,
           IF Named(order, <<"author", "family_name">>) THEN a.family_name ELSE EmptyStr)

\* the record projected onto the fields that the order names: every other
\* field is zero
Projection(m, order) ==
    Book(IF Named(order, <<"title">>) THEN m.title ELSE EmptyStr,
         IF Named(order, <<"author">>) THEN m.author
         ELSE ProjectedAuthor(m.author, order),
         << >>, << >>,
         IF Named(order, <<"name">>) THEN m.name ELSE EmptyStr,
         IF Named(order, <<"pages">>) THEN m.pages ELSE 0,
         IF Named(order, <<"in_print">>) THEN m.in_print ELSE FALSE,
         IF Named(order, <<"price">>) THEN m.price ELSE 0)

\* the record as its getters show it: an author that is not set reads as
\* an empty one
Getters(m) == [m EXCEPT !.author.has = TRUE]

\* the order, context and key that NewCursor was called with
MintInputs == [order |-> orderBy, aad |-> cursor.aad, key |-> cursor.key]

\* the token of NewCursor was decoded as it was, with NewCursor's inputs
DecodedAsMinted ==
    /\ pc = "decoded"
    /\ ~cursor.foreign
    /\ flipped.pos = 0
    /\ decArgs = MintInputs

----------------------------------------------------------------------------
(* The claims about the cursor, under SpecCursor.                          *)

\* C1: for every record R and every order O valid for its type, NewCursor
\* returns a token, and DecodeCursor of that token with the same order,
\* key and context succeeds and returns R projected onto the fields O
\* names, every other field zero.
C1_RoundTrip ==
    /\ (pc \in {"minted", "failed"} /\ ~cursor.foreign
           /\ ~ComparerRejects("Book", orderBy) /\ ~MarshalFails("Book", cursor.m))
       => tok.st = "ok"
    /\ DecodedAsMinted =>
          /\ ~decoded.err
          /\ ~decoded.isNil
          /\ Getters(decoded.msg) = Getters(Projection(cursor.m, orderBy))

\* C2: a token of NewCursor under (O, ctx) fails to decode under the same
\* key with every (O', ctx') other than (O, ctx) - a direction changed, a
\* shared prefix, a 0x00 in the context - because the associated data of
\* two different (context, order) pairs is different.  The associated
\* data depends on neither the record nor the key: the second conjunct
\* takes one of each, and every order and context.
C2_OrderContextBinding ==
    /\ (pc = "decoded" /\ ~cursor.foreign /\ flipped.pos = 0
           /\ decArgs.key = cursor.key
           /\ <<decArgs.order, decArgs.aad>> # <<orderBy, cursor.aad>>)
       => (decoded.err /\ decoded.isNil)
    /\ (pc = "minted" /\ ~cursor.foreign /\ cursor.key = 1
           /\ cursor.m = [ZeroBook EXCEPT !.author = NewMessage("Author")]) =>
          LET mine == AssociatedData(cursor.aad, orderBy)
              cipher == DecodeString(tok.str).bytes
          IN \A o \in CursorOrders, c \in Contexts :
                <<o, c>> # <<orderBy, cursor.aad>> =>
                   /\ AssociatedData(c, o) # mine
                   /\ ~Decrypt(sealed, cursor.key, cipher, AssociatedData(c, o)).ok

\* C2 happens: a token minted under `title` was decoded, with the same key
\* and context, under `title desc`, and the call failed
C2_Witness ==
    /\ pc = "decoded"
    /\ ~cursor.foreign
    /\ flipped.pos = 0
    /\ orderBy = <<Key(<<"title">>, FALSE)>>
    /\ decArgs = [MintInputs EXCEPT !.order = <<Key(<<"title">>, TRUE)>>]
    /\ decoded.err

\* C3: whatever the length of the ciphertext, a token of NewCursor with
\* any single bit flipped fails to decode with the order, key and context
\* it was minted with.
C3_TamperDetected ==
    (pc = "decoded" /\ ~cursor.foreign /\ flipped.pos # 0) => decoded.err

\* C4: every failure of DecodeCursor - malformed base64, authentication
\* failure, unmarshal failure after decryption - returns a nil record and
\* an error that wraps ErrInvalidPageToken, never a partly decoded record;
\* a call that does not fail returns a record.
C4_UniformFailure ==
    pc = "decoded" =>
        IF decoded.err
        THEN /\ decoded.isNil
             /\ decoded.wraps = "ErrInvalidPageToken"
             /\ decoded.msg = ZeroBook
        ELSE ~decoded.isNil

\* C4 happens: the token decrypted, proto.Unmarshal failed after it had
\* set the author of the record, and DecodeCursor returned nil and the
\* error
C4_Witness ==
    /\ pc = "decoded"
    /\ cursor.foreign
    /\ flipped.pos = 0
    /\ decArgs = MintInputs
    /\ LET data == Decrypt(sealed, decArgs.key, DecodeString(tok.str).bytes,
                           AssociatedData(decArgs.aad, decArgs.order))
           u == Unmarshal("Book", data.pt, ZeroBook)
       IN data.ok /\ ~u.ok /\ u.msg.author.has
    /\ decoded.err
    /\ decoded.isNil

----------------------------------------------------------------------------
(* Further claims about the ordering comparator, under SpecOrder.          *)

RECURSIVE NamesFields(_, _)
\* every segment names a field, and every segment but the last a field
\* that holds a record
NamesFields(desc, segments) ==
    \/ segments = << >>
    \/ LET fd == ByName(desc, Head(segments)) IN
       /\ fd # NilFd
       /\ \/ Len(segments) = 1
          \/ IsMessageField(fd) /\ NamesFields(fd.msg, Tail(segments))

\* C11: Comparer and Less return an error for every order with a path
\* that names a field the record does not have, or that continues below
\* a field that is not a record, such as title.name.
C11_PathValidation ==
    (pc # "start" /\ closure.kind \in {"cmp", "less"}
        /\ \E i \in 1..Len(orderBy) : ~NamesFields("Book", orderBy[i].segments))
    => (compErr /\ closure.isNil)


----------------------------------------------------------------------------
(* The filter evaluator (filter_closure.go).  A Go pointer is a sequence   *)
(* of length at most one: << >> is nil, <<x>> points to x.  A Member is    *)
(* the Value and Fields of Comparable.Member (or of Arg.Comparable.Member):*)
(* Value is a Go string and so a byte sequence, which names a field when   *)
(* its bytes are a field's name; Fields are field names.  A value of type  *)
(* `any` is a Val whose typ is the dynamic Go type: "string", "int32",     *)
(* "bool", "float64", "message", "slice" ([]any, a sequence of Vals),      *)
(* "map" (map[any]any, the sequence of its entries) or "nil".              *)

\* the ASCII range of strings.ToLower
ToLower(s) ==
    [i \in 1..Len(s) |-> IF s[i] >= 65 /\ s[i] <= 90 THEN s[i] + 32 ELSE s[i]]

\* strings.Contains
Contains(s, sub) ==
    \E i \in 0..(Len(s) - Len(sub)) : SubSeq(s, i + 1, i + Len(sub)) = sub

\* desc.Fields().ByName(protoreflect.Name(value)) for a Go string
ByNameBytes(desc, value) ==
    IF \E n \in DOMAIN Schema[desc] : NameBytes(n) = value
    THEN Schema[desc][CHOOSE n \in DOMAIN Schema[desc] : NameBytes(n) = value]
    ELSE NilFd

\* (value, nil) and (nil, err)
Resolved(v) == [err |-> FALSE, v |-> v, panic |-> FALSE]
ResolveError == [err |-> TRUE, v |-> NilValue, panic |-> FALSE]

\* the call does not return: v.Message() panics for a list or a map
\* (reached only below a nested record that has repeated or map fields:
\* with Book, whose nested records hold scalars only, no path leads there)
ResolvePanic == [err |-> TRUE, v |-> NilValue, panic |-> TRUE]

\* (ok, nil) and (false, err)
Evaluated(ok) == [err |-> FALSE, ok |-> ok]
EvalError == [err |-> TRUE, ok |-> FALSE]

\* v.Interface() of a singular field or of a list element
Interface(fd, raw) == Val(GoType(fd.kind), raw)

\* the []any of the elements of a list field
ListInterface(fd, raw) ==
    Val("slice", [i \in 1..Len(raw) |-> Interface(fd, raw[i])])

\* the map[any]any of a map field: string keys and string values
MapInterface(raw) ==
    Val("map", [i \in 1..Len(raw) |->
                   [key |-> Val("string", raw[i].key),
                    value |-> Val("string", raw[i].value)]])

RECURSIVE resolveMemberValueFromMessage(_, _, _)
\* the loop over fields, one iteration per call; cur is valid
resolveMemberValueFromMessage(cur, desc, fields) ==
    IF fields = << >> THEN ResolveError
    ELSE LET step(fd) ==
                 IF fd = NilFd THEN ResolveError
                 ELSE IF Len(fields) = 1
                      THEN IF fd.isMap
                           THEN Resolved(MapInterface(cur[fd.name]))
                           ELSE IF fd.card = "repeated"
                                THEN Resolved(ListInterface(fd, cur[fd.name]))
                           ELSE Resolved(Interface(fd, cur[fd.name]))
                 ELSE IF ~IsMessageField(fd) THEN ResolveError
                 ELSE IF fd.isMap \/ fd.card = "repeated" THEN ResolvePanic
                 ELSE IF ~cur[fd.name].has THEN Resolved(NilValue)
                 ELSE resolveMemberValueFromMessage(cur[fd.name], fd.msg,
                                                    Tail(fields))
         IN step(ByName(desc, Head(fields)))

RECURSIVE resolveEach(_, _, _)
\* the loop of resolveMemberValue over the elements of a list of messages:
\* the sub-results so far, or the first error
resolveEach(elems, desc, fields) ==
    IF elems = << >> THEN Resolved(<< >>)
    ELSE LET collect(sub, rest) ==
                 IF sub.err THEN sub
                 ELSE IF rest.err THEN rest
                 ELSE Resolved(<<sub.v>> \o rest.v)
         IN collect(IF ~Head(elems).has THEN Resolved(NilValue)
                    ELSE resolveMemberValueFromMessage(Head(elems), desc,
                                                       fields),
                    resolveEach(Tail(elems), desc, fields))

resolveMemberValue(m, desc, mem) ==
    LET slice(results) ==
            IF results.err THEN results
            ELSE Resolved(Val("slice", results.v))
        resolve(fd) ==
            IF fd = NilFd
            THEN IF Len(mem.Fields) > 0 THEN ResolveError
                 ELSE Resolved(Val("string", mem.Value))
            ELSE IF fd.isMap
            THEN IF Len(mem.Fields) = 0
                 THEN Resolved(MapInterface(m[fd.name]))
                 ELSE ResolveError
            ELSE IF fd.card = "repeated"
            THEN IF Len(mem.Fields) = 0
                 THEN Resolved(ListInterface(fd, m[fd.name]))
                 ELSE IF ~IsMessageField(fd) THEN ResolveError
                 ELSE slice(resolveEach(m[fd.name], fd.msg, mem.Fields))
            ELSE IF Len(mem.Fields) = 0
            THEN Resolved(Interface(fd, m[fd.name]))
            ELSE IF ~IsMessageField(fd) THEN ResolveError
            ELSE IF ~m[fd.name].has THEN Resolved(NilValue)
            ELSE resolveMemberValueFromMessage(m[fd.name], fd.msg,
                                               mem.Fields)
    IN resolve(ByNameBytes(desc, mem.Value))

\* asFloat64 succeeds
IsNumber(v) == v.typ \in {"int32", "float64"}

\* reflect.DeepEqual of two values of type any (the filters of the model
\* never compare two messages, where it looks into the runtime's state)
DeepEqual(a, b) == a.typ = b.typ /\ a.val = b.val

\* the has operator with a map on the left: some key or value is, or as a
\* string contains, rhs
MapHas(entries, rhs) ==
    \E i \in 1..Len(entries) :
        \E kv \in {entries[i].key, entries[i].value} :
            \/ DeepEqual(kv, rhs)
            \/ kv.typ = "string" /\ rhs.typ = "string"
                   /\ Contains(kv.val, rhs.val)

\* compareAny of two values neither of which is a slice, for = and !=
EqualAny(lhs, rhs) ==
    IF IsNumber(lhs) THEN IsNumber(rhs) /\ lhs.val = rhs.val
    ELSE IF lhs.typ \in {"string", "bool"}
         THEN rhs.typ = lhs.typ /\ lhs.val = rhs.val
    ELSE DeepEqual(lhs, rhs)

\* the switch on the ordering operator, given the sign of lhs against rhs
Ordered(op, sign) ==
    CASE op = ">" -> sign > 0
      [] op = "<" -> sign < 0
      [] op = ">=" -> sign >= 0
      [] op = "<=" -> sign <= 0

\* compareAny of two values neither of which is a slice
compareScalars(lhs, rhs, op) ==
    IF op = ":"
    THEN IF lhs.typ = "string" /\ rhs.typ = "string"
         THEN Evaluated(Contains(lhs.val, rhs.val))
         ELSE IF lhs.typ = "map" THEN Evaluated(MapHas(lhs.val, rhs))
         ELSE Evaluated(DeepEqual(lhs, rhs))
    ELSE IF op = "=" THEN Evaluated(EqualAny(lhs, rhs))
    ELSE IF op = "!=" THEN Evaluated(~EqualAny(lhs, rhs))
    ELSE IF IsNumber(lhs)
         THEN IF IsNumber(rhs) THEN Evaluated(Ordered(op, Sign(lhs.val, rhs.val)))
              ELSE EvalError
    ELSE IF lhs.typ = "string"
         THEN IF rhs.typ = "string"
              THEN Evaluated(Ordered(op, StringsCompare(lhs.val, rhs.val)))
              ELSE EvalError
    ELSE EvalError

RECURSIVE compareAnyAll(_, _, _)
\* compareAny with "every element" in place of "any element"
compareAnyAll(lhs, rhs, op) ==
    IF lhs.typ = "slice"
    THEN Evaluated(\A i \in 1..Len(lhs.val) :
                       compareAnyAll(lhs.val[i], rhs, op).ok)
    ELSE IF rhs.typ = "slice"
    THEN Evaluated(\A i \in 1..Len(rhs.val) :
                       compareAnyAll(lhs, rhs.val[i], op).ok)
    ELSE compareScalars(lhs, rhs, op)

RECURSIVE compareAny(_, _, _)
\* a slice on either side: the first element that errors or matches decides
compareAny(lhs, rhs, op) ==
    LET first(el, others) ==
            IF el.err THEN EvalError
            ELSE IF el.ok THEN Evaluated(TRUE)
            ELSE others
    IN IF lhs.typ = "slice"
       THEN IF lhs.val = << >> THEN Evaluated(FALSE)
            ELSE first(compareAny(Head(lhs.val), rhs, op),
                       compareAny(Val("slice", Tail(lhs.val)), rhs, op))
       ELSE IF rhs.typ = "slice"
       THEN IF rhs.val = << >> THEN Evaluated(FALSE)
            ELSE first(compareAny(lhs, Head(rhs.val), op),
                       compareAny(lhs, Val("slice", Tail(rhs.val)), op))
       ELSE compareScalars(lhs, rhs, op)

RECURSIVE searchMessageStrings(_, _, _)

\* fieldContains comparing the value in the case it has
fieldContainsCaseSensitive(fd, raw, term) ==
    CASE fd.kind = "string" -> Contains(raw, term)
      [] fd.kind = "message" -> raw.has /\ searchMessageStrings(raw, fd.msg, term)
      [] OTHER -> FALSE

\* the value is a string containing the lowered term, or a valid message
\* one of whose strings does
fieldContains(fd, raw, term) ==
    CASE fd.kind = "string" -> Contains(ToLower(raw), term)
      [] fd.kind = "message" -> raw.has /\ searchMessageStrings(raw, fd.msg, term)
      [] OTHER -> FALSE

\* the loop over the fields of m: TRUE at the first field that contains
\* the term
searchMessageStrings(m, desc, term) ==
    \E n \in DOMAIN Schema[desc] :
        LET fd == Schema[desc][n]
            val == m[n]
        IN IF fd.isMap
           THEN \E j \in 1..Len(val) :
                   \/ fieldContains(Schema[fd.msg].key, val[j].key,
                                    ToLower(term))
                   \/ fieldContains(Schema[fd.msg].value, val[j].value,
                                    ToLower(term))
           ELSE IF fd.card = "repeated"
           THEN \E j \in 1..Len(val) : fieldContains(fd, val[j], ToLower(term))
           ELSE fieldContains(fd, val, ToLower(term))

Member(value, fields) == [Value |-> value, Fields |-> fields]

\* &Restriction{Comparable, Comparator, Arg}; arg is a pointer
Restriction(comparable, comparator, arg) ==
    [Comparable |-> comparable, Comparator |-> comparator, Arg |-> arg]

evalRestriction(m, desc, r) ==
    IF r.Comparator = ""
    THEN Evaluated(searchMessageStrings(m, desc, r.Comparable.Value))
    ELSE LET resolveArg(arg) ==
                 IF arg = << >> THEN ResolveError
                 ELSE resolveMemberValue(m, desc, arg[1])
             compare(lhs, rhs) ==
                 IF lhs.err THEN EvalError
                 ELSE IF rhs.err THEN EvalError
                 ELSE compareAny(lhs.v, rhs.v, r.Comparator)
         IN compare(resolveMemberValue(m, desc, r.Comparable),
                    resolveArg(r.Arg))

\* the nodes of the AST
Expression(sequences) == [Sequences |-> sequences]
Sequence(factors) == [Factors |-> factors]
Factor(terms) == [Terms |-> terms]
Term(negated, simple) == [Negated |-> negated, Simple |-> simple]
SimpleRestriction(r) == [Restriction |-> <<r>>, Composite |-> << >>]
SimpleComposite(e) == [Restriction |-> << >>, Composite |-> <<e>>]
Filter(expression) == [Expression |-> expression]

RECURSIVE evalExpression(_, _, _)
RECURSIVE evalSequence(_, _, _)
RECURSIVE evalFactor(_, _, _)
RECURSIVE evalSimple(_, _, _)

\* evalTerm without the negation
evalTermNeverNegated(m, desc, t) ==
    evalSimple(m, desc, t.Simple)

evalTerm(m, desc, t) ==
    LET negate(r) ==
            IF r.err THEN EvalError
            ELSE IF t.Negated THEN Evaluated(~r.ok)
            ELSE Evaluated(r.ok)
    IN negate(evalSimple(m, desc, t.Simple))

evalSimple(m, desc, s) ==
    IF s.Restriction # << >> THEN evalRestriction(m, desc, s.Restriction[1])
    ELSE IF s.Composite # << >> THEN evalExpression(m, desc, s.Composite[1])
    ELSE EvalError

\* evalFactor deciding by its first term alone
evalFactorFirstTerm(m, desc, f) ==
    IF f.Terms = << >> THEN Evaluated(FALSE)
    ELSE evalTerm(m, desc, Head(f.Terms))

\* the loop over f.Terms, one iteration per call
evalFactor(m, desc, f) ==
    IF f.Terms = << >> THEN Evaluated(FALSE)
    ELSE LET first(r, others) ==
                 IF r.err THEN EvalError
                 ELSE IF r.ok THEN Evaluated(TRUE)
                 ELSE others
         IN first(evalTerm(m, desc, Head(f.Terms)),
                  evalFactor(m, desc, Factor(Tail(f.Terms))))

\* the loop over s.Factors, one iteration per call
evalSequence(m, desc, s) ==
    IF s.Factors = << >> THEN Evaluated(TRUE)
    ELSE LET first(r, others) ==
                 IF r.err THEN EvalError
                 ELSE IF ~r.ok THEN Evaluated(FALSE)
                 ELSE others
         IN first(evalFactor(m, desc, Head(s.Factors)),
                  evalSequence(m, desc, Sequence(Tail(s.Factors))))

\* the loop over e.Sequences, one iteration per call
evalExpression(m, desc, e) ==
    IF e.Sequences = << >> THEN Evaluated(TRUE)
    ELSE LET first(r, others) ==
                 IF r.err THEN EvalError
                 ELSE IF ~r.ok THEN Evaluated(FALSE)
                 ELSE others
         IN first(evalSequence(m, desc, Head(e.Sequences)),
                  evalExpression(m, desc, Expression(Tail(e.Sequences))))

\* f is a pointer to a Filter, whose Expression is a pointer
matchesFilter(m, desc, f) ==
    IF f = << >> THEN Evaluated(TRUE)
    ELSE IF f[1].Expression = << >> THEN Evaluated(TRUE)
    ELSE evalExpression(m, desc, f[1].Expression[1])

\* ProtoFilter's validation against the zero record: TRUE when it returns
\* (nil, err)
ProtoFilterRejects(desc, f) ==
    f # << >> /\ matchesFilter(ZeroBook, desc, f).err

\* the closure ProtoFilter returns, applied to m
filterClosure(desc, f, m) ==
    IF f = << >> THEN TRUE ELSE matchesFilter(m, desc, f).ok

----------------------------------------------------------------------------
(* The caller of the filter evaluator: one ProtoFilter call, then a call   *)
(* of the predicate it returned.                                           *)

\* the records the predicate is called on ("a" is <<97>>, "b" <<98>>,
\* "Ab" <<65, 98>>)
FilterRecords ==
    { [ZeroBook EXCEPT !.title = t, !.name = n, !.author = a] :
          t \in {EmptyStr, StrA}, n \in {EmptyStr, StrA},
          a \in {NoAuthor, Author(TRUE, StrA, StrB)} }
    \cup
    { [ZeroBook EXCEPT !.author = Author(TRUE, EmptyStr, EmptyStr)],
      [ZeroBook EXCEPT !.title = <<65, 98>>],
      [ZeroBook EXCEPT !.pages = 1],
      [ZeroBook EXCEPT !.authors = <<Author(TRUE, StrB, StrA)>>],
      [ZeroBook EXCEPT !.authors = <<Author(TRUE, StrA, StrA),
                                     Author(TRUE, StrA, StrB)>>],
      [ZeroBook EXCEPT !.reviews = <<[key |-> StrA, value |-> <<65, 98>>]>>] }

\* a field path as a Member: the first segment is the Value
PathMember(segments) == Member(NameBytes(Head(segments)), Tail(segments))

\* a literal as a Member: a value that names no field
Literal(value) == Member(value, << >>)

\* the filters handed to ProtoFilter: nil, a filter without an expression,
\* and filters with an expression
Filters ==
    LET \* the left-hand sides of the explicit restrictions
        LeftMembers ==
            { PathMember(<<"title">>), PathMember(<<"pages">>),
              PathMember(<<"author", "family_name">>),
              PathMember(<<"authors", "family_name">>),
              PathMember(<<"authors">>), PathMember(<<"reviews">>),
              PathMember(<<"title", "name">>),
              PathMember(<<"reviews", "key">>),
              PathMember(<<"author", "no_such_field">>),
              PathMember(<<"authors", "no_such_field">>),
              Member(StrB, <<"title">>),
              Literal(StrA) }
        \* their right-hand sides: "", "a", "b", "1" and two paths
        RightMembers ==
            { Literal(EmptyStr), Literal(StrA), Literal(StrB), Literal(<<49>>),
              PathMember(<<"authors", "given_name">>),
              PathMember(<<"author", "given_name">>) }
        ExplicitRestrictions ==
            { Restriction(l, c, <<r>>) :
                  l \in LeftMembers,
                  c \in {"=", "!=", "<", ">", "<=", ">=", ":"},
                  r \in RightMembers }
        \* the bare terms a, A, b, Ab, aB and 1
        GlobalRestrictions ==
            { Restriction(Literal(t), "", << >>) :
                  t \in {StrA, <<65>>, StrB, <<65, 98>>, <<97, 66>>, <<49>>} }
        \* the restrictions the compound filters are built from: three that
        \* are false and one that is true on the zero record, a descent into
        \* a scalar, a subfield no element has, and a bare term
        CoreRestrictions ==
            { Restriction(PathMember(<<"title">>), "=", <<Literal(StrA)>>),
              Restriction(PathMember(<<"name">>), "=", <<Literal(StrA)>>),
              Restriction(PathMember(<<"author", "given_name">>), "=",
                          <<Literal(StrA)>>),
              Restriction(PathMember(<<"title">>), "=", <<Literal(EmptyStr)>>),
              Restriction(PathMember(<<"title", "name">>), "=",
                          <<Literal(StrA)>>),
              Restriction(PathMember(<<"authors", "no_such_field">>), "=",
                          <<Literal(StrA)>>),
              Restriction(Literal(StrB), "", << >>) }
        RestrictionTerms(rs, negations) ==
            { Term(n, SimpleRestriction(r)) : n \in negations, r \in rs }
        Plain == RestrictionTerms(CoreRestrictions, {FALSE})
        \* factors of one or two of the terms
        FactorsOf(terms) ==
            { Factor(<<t>>) : t \in terms }
            \cup { Factor(<<t, u>>) : t \in terms, u \in terms }
        \* an expression of one sequence of one factor
        One(f) == Expression(<<Sequence(<<f>>)>>)
        \* (t OR u), NOT (t OR u)
        CompositeTerms ==
            { Term(n, SimpleComposite(One(Factor(<<t, u>>)))) :
                  n \in BOOLEAN, t \in Plain, u \in Plain }
        FilterExpressions ==
            \* one restriction, negated or not
            { One(Factor(<<t>>)) :
                  t \in RestrictionTerms(
                            ExplicitRestrictions \cup GlobalRestrictions,
                            BOOLEAN) }
            \* t, and t OR u
            \cup { One(f) :
                       f \in FactorsOf(RestrictionTerms(CoreRestrictions,
                                                        BOOLEAN)) }
            \* t u: two factors of one sequence
            \cup { Expression(<<Sequence(<<Factor(<<t>>), Factor(<<u>>)>>)>>) :
                       t \in Plain, u \in Plain }
            \* two sequences: t AND u, t AND (u OR v), (t OR u) AND v, ...
            \cup { Expression(<<Sequence(<<f>>), Sequence(<<g>>)>>) :
                       f \in FactorsOf(Plain), g \in FactorsOf(Plain) }
            \* (t OR u), NOT (t OR u)
            \cup { One(Factor(<<c>>)) : c \in CompositeTerms }
            \* (t OR u) AND v, NOT (t OR u) AND v
            \cup { Expression(<<Sequence(<<Factor(<<c>>)>>),
                                Sequence(<<Factor(<<t>>)>>)>>) :
                       c \in CompositeTerms, t \in Plain }
    IN { << >>, <<Filter(<< >>)>> }
       \cup { <<Filter(<<e>>)>> : e \in FilterExpressions }

\* predicate, err := ProtoFilter[Book](f)
CallProtoFilter ==
    /\ pc = "start"
    /\ \E f \in Filters :
          /\ pc' = "filtered"
          /\ filter' = f
          /\ filterErr' = ProtoFilterRejects("Book", f)
          /\ predicate' = [isNil |-> ProtoFilterRejects("Book", f)]
          /\ UNCHANGED <<rec, matched, text, parsed>>
    /\ UNCHANGED <<orderBy, orderVars, cursorVars, sqlVars, maskVars,
                 resolveVars>>

\* predicate(m)
InvokeFilter ==
    /\ pc = "filtered"
    /\ ~predicate.isNil
    /\ \E m \in FilterRecords :
          /\ pc' = "matched"
          /\ rec' = m
          /\ matched' = filterClosure("Book", filter, m)
          /\ UNCHANGED <<filter, predicate, filterErr, text, parsed>>
    /\ UNCHANGED <<orderBy, orderVars, cursorVars, sqlVars, maskVars,
                 resolveVars>>

NextFilter ==
    \/ CallProtoFilter
    \/ InvokeFilter

SpecFilter == Init /\ [][NextFilter]_vars

----------------------------------------------------------------------------
(* Claims about the filter evaluator, under SpecFilter. *)

RECURSIVE ExpressionRestrictions(_)
\* every restriction of the AST below e, those inside parentheses included
ExpressionRestrictions(e) ==
    UNION { UNION { UNION {
        LET s == e.Sequences[i].Factors[j].Terms[k].Simple IN
        IF s.Restriction # << >> THEN {s.Restriction[1]}
        ELSE IF s.Composite # << >> THEN ExpressionRestrictions(s.Composite[1])
        ELSE {} :
        k \in 1..Len(e.Sequences[i].Factors[j].Terms) } :
        j \in 1..Len(e.Sequences[i].Factors) } :
        i \in 1..Len(e.Sequences) }

\* every restriction of the filter
FilterRestrictions(f) ==
    IF f = << >> THEN {}
    ELSE IF f[1].Expression = << >> THEN {}
    ELSE ExpressionRestrictions(f[1].Expression[1])

RECURSIVE DescendsBelowScalar(_, _)
\* some segment of the path follows a field that is not a record
DescendsBelowScalar(desc, fields) ==
    /\ fields # << >>
    /\ LET fd == ByName(desc, Head(fields)) IN
       /\ fd # NilFd
       /\ Tail(fields) # << >>
       /\ \/ ~IsMessageField(fd)
          \/ DescendsBelowScalar(fd.msg, Tail(fields))

\* the member is a field path that is invalid for the record type: an
\* unknown top-level field followed by further segments, a descent into a
\* map, or a descent into a scalar
InvalidFieldPath(desc, mem) ==
    /\ mem.Fields # << >>
    /\ LET fd == ByNameBytes(desc, mem.Value) IN
       \/ fd = NilFd
       \/ fd.isMap
       \/ ~IsMessageField(fd)
       \/ DescendsBelowScalar(fd.msg, mem.Fields)

\* the explicit restriction has an invalid field path on either side
HasInvalidFieldPath(desc, r) ==
    /\ r.Comparator # ""
    /\ \/ InvalidFieldPath(desc, r.Comparable)
       \/ r.Arg # << >> /\ InvalidFieldPath(desc, r.Arg[1])

\* C12: ProtoFilter returns an error and no closure for every filter that
\* has, anywhere in its AST, a restriction with an invalid field path.
C12_FailFast ==
    (pc \in {"filtered", "matched"}
        /\ \E r \in FilterRestrictions(filter) : HasInvalidFieldPath("Book", r))
    => (filterErr /\ predicate.isNil)

\* the terms of a filter that is a single factor, << >> for any other filter
SingleFactorTerms(f) ==
    IF f = << >> THEN << >>
    ELSE IF f[1].Expression = << >> THEN << >>
    ELSE LET e == f[1].Expression[1] IN
         IF Len(e.Sequences) = 1 /\ Len(e.Sequences[1].Factors) = 1
         THEN e.Sequences[1].Factors[1].Terms
         ELSE << >>

\* the term is the restriction r, negated or not
IsRestrictionTerm(t) == t.Simple.Restriction # << >>

\* the restriction holds of the record, an error counting as no match
Matches(m, r) ==
    LET e == evalRestriction(m, "Book", r) IN ~e.err /\ e.ok

\* C13: inside a compiled predicate a restriction that errors is a
\* restriction that does not match: where r errors on the record, the
\* predicate of `NOT r` returns true and the predicate of `r OR s` returns
\* the value of s.
C13_ErrorIsNoMatch ==
    LET ts == SingleFactorTerms(filter) IN
    /\ (pc = "matched" /\ Len(ts) = 1 /\ IsRestrictionTerm(ts[1])
            /\ ts[1].Negated
            /\ evalRestriction(rec, "Book", ts[1].Simple.Restriction[1]).err)
       => matched
    /\ (pc = "matched" /\ Len(ts) = 2
            /\ IsRestrictionTerm(ts[1]) /\ IsRestrictionTerm(ts[2])
            /\ ~ts[1].Negated /\ ~ts[2].Negated
            /\ evalRestriction(rec, "Book", ts[1].Simple.Restriction[1]).err)
       => (matched = Matches(rec, ts[2].Simple.Restriction[1]))

RECURSIVE ReferenceExpression(_, _)
\* the reference value of an expression on a record: conjunction of the
\* sequences, conjunction of the factors, disjunction of the terms, negation
ReferenceExpression(m, e) ==
    \A i \in 1..Len(e.Sequences) :
        \A j \in 1..Len(e.Sequences[i].Factors) :
            \E k \in 1..Len(e.Sequences[i].Factors[j].Terms) :
                LET t == e.Sequences[i].Factors[j].Terms[k]
                    simple ==
                        IF t.Simple.Restriction # << >>
                        THEN Matches(m, t.Simple.Restriction[1])
                        ELSE ReferenceExpression(m, t.Simple.Composite[1])
                IN IF t.Negated THEN ~simple ELSE simple

\* no restriction of the filter errors on the record
NoRestrictionErrors(m, f) ==
    \A r \in FilterRestrictions(f) : ~evalRestriction(m, "Book", r).err

\* C14: on a record on which no restriction of the filter errors, the
\* compiled predicate returns the reference value of the AST (AND over
\* Sequences, AND over Factors, OR over Terms, NOT of a negated Term, the
\* Restriction or the parenthesised Expression of a Simple); a nil filter
\* and a filter without an expression return true.
C14_BooleanComposition ==
    (pc = "matched" /\ NoRestrictionErrors(rec, filter))
    => IF filter = << >> THEN matched
       ELSE IF filter[1].Expression = << >> THEN matched
       ELSE matched = ReferenceExpression(rec, filter[1].Expression[1])

\* C14 happens: the predicate of a filter with two sequences, a negation
\* or a parenthesised expression was called.
C14_Witness ==
    /\ pc = "matched"
    /\ NoRestrictionErrors(rec, filter)
    /\ filter # << >>
    /\ filter[1].Expression # << >>
    /\ LET e == filter[1].Expression[1] IN
       /\ Len(e.Sequences) = 2
       /\ LET t == e.Sequences[1].Factors[1].Terms[1] IN
          /\ t.Negated
          /\ t.Simple.Composite # << >>
       /\ matched

\* the elements of a collection, or the value itself
Elements(v) ==
    IF v.typ = "slice" THEN {v.val[i] : i \in 1..Len(v.val)} ELSE {v}

\* the filter is the single restriction r, not negated
IsRestriction(f, r) ==
    LET ts == SingleFactorTerms(f) IN
    /\ Len(ts) = 1
    /\ ~ts[1].Negated
    /\ ts[1].Simple.Restriction = <<r>>

RECURSIVE ReachableStrings(_, _)
\* the strings reachable from a record: its string fields, those of its set
\* embedded records, those of every element of its repeated fields, and
\* the string keys and values of its maps
ReachableStrings(m, desc) ==
    UNION {
        LET fd == Schema[desc][n] IN
        IF fd.isMap
        THEN UNION { {m[n][i][kv] : kv \in { x \in {"key", "value"} :
                                        Schema[fd.msg][x].kind = "string" }} :
                     i \in 1..Len(m[n]) }
        ELSE IF fd.card = "repeated"
        THEN IF fd.kind = "string" THEN {m[n][i] : i \in 1..Len(m[n])}
             ELSE IF fd.kind = "message"
             THEN UNION {ReachableStrings(m[n][i], fd.msg) : i \in 1..Len(m[n])}
             ELSE {}
        ELSE IF fd.kind = "string" THEN {m[n]}
        ELSE IF fd.kind = "message" /\ m[n].has
        THEN ReachableStrings(m[n], fd.msg)
        ELSE {} :
        n \in DOMAIN Schema[desc] }

C18_UnsetNestedIsZero ==
    (pc = "matched" /\ ~rec.author.has)
    => /\ ~resolveMemberValue(rec, "Book",
                              PathMember(<<"author", "family_name">>)).err
       /\ IsRestriction(filter,
              Restriction(PathMember(<<"author", "family_name">>), "=",
                          <<Literal(EmptyStr)>>))
          => matched
       /\ IsRestriction(filter,
              Restriction(PathMember(<<"author", "family_name">>), "!=",
                          <<Literal(EmptyStr)>>))
          => ~matched

----------------------------------------------------------------------------
(* The filter grammar.  A filter string is the sequence of its tokens: a   *)
(* keyword or parenthesis, a comparator, or a member (a dotted path or a   *)
(* literal).  The parser is recursive descent over                         *)
(*   expression := sequence {"AND" sequence}                               *)
(*   sequence   := factor {factor}                                         *)
(*   factor     := term {"OR" term}                                        *)
(*   term       := ["NOT" | "-"] simple                                    *)
(*   simple     := restriction | "(" expression ")"                        *)
(*   restriction:= comparable [comparator arg]                             *)

Keyword(kind) == [kind |-> kind, cmp |-> "", member |-> Literal(EmptyStr)]
ComparatorToken(c) == [kind |-> "cmp", cmp |-> c, member |-> Literal(EmptyStr)]
MemberToken(mem) == [kind |-> "member", cmp |-> "", member |-> mem]

\* a node and the tokens after it, or a syntax error
ParsedNode(node, rest) == [ok |-> TRUE, node |-> node, rest |-> rest]
ParseFail == [ok |-> FALSE, node |-> << >>, rest |-> << >>]

IsNext(ts, kinds) == ts # << >> /\ Head(ts).kind \in kinds

RECURSIVE parseExpression(_)
RECURSIVE parseSequences(_, _)
RECURSIVE parseSequence(_)
RECURSIVE parseFactors(_, _)
RECURSIVE parseFactor(_)
RECURSIVE parseTerms(_, _)
RECURSIVE parseTerm(_)
RECURSIVE parseSimple(_)

\* restriction := comparable [comparator arg]
parseRestriction(ts) ==
    IF ~IsNext(ts, {"member"}) THEN ParseFail
    ELSE IF IsNext(Tail(ts), {"cmp"})
         THEN IF IsNext(Tail(Tail(ts)), {"member"})
              THEN ParsedNode(Restriction(ts[1].member, ts[2].cmp,
                                          <<ts[3].member>>),
                              Tail(Tail(Tail(ts))))
              ELSE ParseFail
    ELSE ParsedNode(Restriction(ts[1].member, "", << >>), Tail(ts))

\* simple := restriction | "(" expression ")"
parseSimple(ts) ==
    LET composite(e) ==
            IF e.ok /\ IsNext(e.rest, {")"})
            THEN ParsedNode(SimpleComposite(e.node), Tail(e.rest))
            ELSE ParseFail
        restriction(r) ==
            IF r.ok THEN ParsedNode(SimpleRestriction(r.node), r.rest)
            ELSE ParseFail
    IN IF IsNext(ts, {"("}) THEN composite(parseExpression(Tail(ts)))
       ELSE restriction(parseRestriction(ts))

\* term := ["NOT" | "-"] simple
parseTerm(ts) ==
    LET term(negated, s) ==
            IF s.ok THEN ParsedNode(Term(negated, s.node), s.rest)
            ELSE ParseFail
    IN term(IsNext(ts, {"NOT", "-"}),
            parseSimple(IF IsNext(ts, {"NOT", "-"}) THEN Tail(ts) ELSE ts))

\* term {"OR" term}, given the terms parsed so far
parseTerms(terms, ts) ==
    LET more(t) ==
            IF t.ok THEN parseTerms(Append(terms, t.node), t.rest)
            ELSE ParseFail
    IN IF terms = << >> \/ IsNext(ts, {"OR"})
       THEN more(parseTerm(IF terms = << >> THEN ts ELSE Tail(ts)))
       ELSE ParsedNode(Factor(terms), ts)

\* factor := term {"OR" term}
parseFactor(ts) ==
    parseTerms(<< >>, ts)

\* factor {factor}, given the factors parsed so far: a further factor
\* follows where a term can start
parseFactors(factors, ts) ==
    LET more(f) ==
            IF f.ok THEN parseFactors(Append(factors, f.node), f.rest)
            ELSE ParseFail
    IN IF factors = << >> \/ IsNext(ts, {"NOT", "-", "(", "member"})
       THEN more(parseFactor(ts))
       ELSE ParsedNode(Sequence(factors), ts)

\* sequence := factor {factor}
parseSequence(ts) ==
    parseFactors(<< >>, ts)

\* sequence {"AND" sequence}, given the sequences parsed so far
parseSequences(sequences, ts) ==
    LET more(s) ==
            IF s.ok THEN parseSequences(Append(sequences, s.node), s.rest)
            ELSE ParseFail
    IN IF sequences = << >> \/ IsNext(ts, {"AND"})
       THEN more(parseSequence(IF sequences = << >> THEN ts ELSE Tail(ts)))
       ELSE ParsedNode(Expression(sequences), ts)

\* expression := sequence {"AND" sequence}
parseExpression(ts) ==
    parseSequences(<< >>, ts)

\* f, err := ParseFilter(text): the whole text is one expression
ParseFilter(ts) ==
    LET whole(e) ==
            IF e.ok /\ e.rest = << >>
            THEN [ok |-> TRUE, filter |-> <<Filter(<<e.node>>)>>]
            ELSE [ok |-> FALSE, filter |-> << >>]
    IN whole(parseExpression(ts))

\* the tokens of the restriction `path = "a"`
Equals(segments) ==
    <<MemberToken(PathMember(segments)), ComparatorToken("="),
      MemberToken(Literal(StrA))>>

\* A AND B OR C, where A is `title = "a"`, B is `name = "a"` and C is
\* `author.given_name = "a"`
TextAndOr ==
    Equals(<<"title">>) \o <<Keyword("AND")>> \o Equals(<<"name">>)
        \o <<Keyword("OR")>> \o Equals(<<"author", "given_name">>)

\* A OR B AND C
TextOrAnd ==
    Equals(<<"title">>) \o <<Keyword("OR")>> \o Equals(<<"name">>)
        \o <<Keyword("AND")>> \o Equals(<<"author", "given_name">>)

\* NOT A OR B
TextNotOr ==
    <<Keyword("NOT")>> \o Equals(<<"title">>) \o <<Keyword("OR")>>
        \o Equals(<<"name">>)

\* the filter strings handed to ParseFilter; the last two are malformed
FilterTexts ==
    LET A == Equals(<<"title">>)
        B == Equals(<<"name">>)
        C == Equals(<<"author", "given_name">>)
        AND == <<Keyword("AND")>>
        OR == <<Keyword("OR")>>
    IN { TextAndOr, TextOrAnd, TextNotOr,
         A, A \o AND \o B, A \o OR \o B,
         A \o B \o OR \o C,
         A \o AND \o B \o AND \o C,
         A \o OR \o B \o OR \o C,
         <<Keyword("-")>> \o A \o AND \o B,
         <<Keyword("(")>> \o A \o AND \o B \o <<Keyword(")")>> \o OR \o C,
         <<Keyword("NOT"), Keyword("(")>> \o A \o OR \o B \o <<Keyword(")")>>,
         <<MemberToken(Literal(StrB))>> \o AND \o A,
         A \o AND,
         <<Keyword("(")>> \o A }

\* f, err := ParseFilter(text)
CallParseFilter ==
    /\ pc = "start"
    /\ \E ts \in FilterTexts :
          /\ pc' = "parsed"
          /\ text' = ts
          /\ parsed' = ParseFilter(ts)
          /\ UNCHANGED <<filter, predicate, filterErr, rec, matched>>
    /\ UNCHANGED <<orderBy, orderVars, cursorVars, sqlVars, maskVars,
                 resolveVars>>

\* predicate, err := ProtoFilter[Book](f) for the f that ParseFilter returned
CallProtoFilterParsed ==
    /\ pc = "parsed"
    /\ parsed.ok
    /\ pc' = "filtered"
    /\ filter' = parsed.filter
    /\ filterErr' = ProtoFilterRejects("Book", parsed.filter)
    /\ predicate' = [isNil |-> ProtoFilterRejects("Book", parsed.filter)]
    /\ UNCHANGED <<rec, matched, text, parsed>>
    /\ UNCHANGED <<orderBy, orderVars, cursorVars, sqlVars, maskVars,
                 resolveVars>>

NextParse ==
    \/ CallParseFilter
    \/ CallProtoFilterParsed
    \/ InvokeFilter

SpecParse == Init /\ [][NextParse]_vars

----------------------------------------------------------------------------
(* Claims about the grammar and the evaluator together, under SpecParse. *)

HoldsA == rec.title = StrA
HoldsB == rec.name = StrA
HoldsC == rec.author.has /\ rec.author.given_name = StrA

\* C15 as stated: OR binds less tightly than AND, so that the predicate of
\* `A AND B OR C` returns (A AND B) OR C.
C15_OrBelowAnd ==
    (pc = "matched" /\ text = TextAndOr)
    => (matched = ((HoldsA /\ HoldsB) \/ HoldsC))

\* C15: operator precedence, lowest to highest, is AND, then OR, then NOT,
\* then restriction: the predicate of `A AND B OR C` returns
\* A AND (B OR C), that of `A OR B AND C` returns (A OR B) AND C, and that
\* of `NOT A OR B` returns (NOT A) OR B, for every truth assignment.
C15_AndBelowOr ==
    /\ (pc = "matched" /\ text = TextAndOr)
       => (matched = (HoldsA /\ (HoldsB \/ HoldsC)))
    /\ (pc = "matched" /\ text = TextOrAnd)
       => (matched = ((HoldsA \/ HoldsB) /\ HoldsC))
    /\ (pc = "matched" /\ text = TextNotOr)
       => (matched = (~HoldsA \/ HoldsB))

\* C15 happens: the predicate of `A AND B OR C` was called on a record
\* where only C holds, and returned false.
C15_Witness ==
    /\ pc = "matched"
    /\ text = TextAndOr
    /\ ~HoldsA /\ ~HoldsB /\ HoldsC
    /\ ~matched

----------------------------------------------------------------------------
(* Orders for SQL: MergeWithDefaultOrder and Table.OrderByClause.  A Table *)
(* is the set of its columns; a column has the field path it is declared   *)
(* for, its database name and its sortable flag.                           *)

\* MergeWithDefaultOrder without the seenColumns test
MergeWithDefaultOrderKeepingAll(defaultOrder, order) ==
    [result |-> order \o defaultOrder,
     defaultOrder |-> defaultOrder, order |-> order]

\* the result, built in a slice of its own, and the two argument slices,
\* which are only read
MergeWithDefaultOrder(defaultOrder, order) ==
    LET seenColumns == {Canonical(order[i].segments) : i \in 1..Len(order)}
        unseen(o) == Canonical(o.segments) \notin seenColumns
    IN [result |-> order \o SelectSeq(defaultOrder, unseen),
        defaultOrder |-> defaultOrder, order |-> order]

Column(segments, databaseName, sortable) ==
    [fieldPath |-> segments, databaseName |-> databaseName,
     sortable |-> sortable]

\* the table of the model: title and in_print share the column "t", price
\* is not sortable, and the other paths have no column
BookTable ==
    { Column(<<"title">>, <<116>>, TRUE),
      Column(<<"in_print">>, <<116>>, TRUE),
      Column(<<"pages">>, <<112>>, TRUE),
      Column(<<"author", "given_name">>, <<103>>, TRUE),
      Column(<<"price">>, <<120>>, FALSE) }

\* t.SortableColumnByFieldPath(fp): the sortable column declared for the
\* path, or an error
SortableColumnByFieldPath(t, segments) ==
    LET found == { c \in t : c.fieldPath = segments /\ c.sortable } IN
    IF found = {} THEN [err |-> TRUE, databaseName |-> << >>]
    ELSE [err |-> FALSE, databaseName |-> (CHOOSE c \in found : TRUE).databaseName]

\* (result, nil) and ("", err)
Rendered(str) == [text |-> str, err |-> FALSE]
RenderError == [text |-> << >>, err |-> TRUE]

RECURSIVE renderKeys(_, _, _, _)
\* the loop of OrderByClause over the keys that are left, with the columns
\* seen and the text built so far
renderKeys(t, order, seenColumns, result) ==
    IF order = << >> THEN Rendered(result)
    ELSE LET o == Head(order)
             column == SortableColumnByFieldPath(t, o.segments)
         IN IF column.err THEN RenderError
            ELSE IF column.databaseName \in seenColumns THEN RenderError
            ELSE renderKeys(t, Tail(order),
                     seenColumns \cup {column.databaseName},
                     result
                       \o (IF seenColumns = {} THEN << >> ELSE <<44, 32>>)
                       \o column.databaseName
                       \o (IF o.Descending THEN <<32, 68, 69, 83, 67>>
                           ELSE << >>))

\* OrderByClause that renders a column however often it appears
OrderByClauseAnyColumns(t, order) ==
    IF Len(order) = 0 THEN Rendered(<< >>)
    ELSE IF \E i \in 1..Len(order) :
                SortableColumnByFieldPath(t, order[i].segments).err
    THEN RenderError
    ELSE Rendered(<<79, 82, 68, 69, 82, 32, 66, 89, 32>>
             \o Join([i \in 1..Len(order) |->
                        SortableColumnByFieldPath(t, order[i].segments).databaseName
                          \o (IF order[i].Descending
                              THEN <<32, 68, 69, 83, 67>> ELSE << >>)],
                     <<44, 32>>)
             \o <<10>>)

\* "ORDER BY ", the keys, "\n"
OrderByClause(t, order) ==
    IF Len(order) = 0 THEN Rendered(<< >>)
    ELSE LET r == renderKeys(t, order, {},
                             <<79, 82, 68, 69, 82, 32, 66, 89, 32>>)
         IN IF r.err THEN RenderError ELSE Rendered(r.text \o <<10>>)

\* the default orders of the model: none, the three keys of the test, and
\* one that names a path twice
DefaultOrders ==
    { << >>,
      <<Key(<<"title">>, TRUE)>>,
      <<Key(<<"title">>, TRUE), Key(<<"pages">>, FALSE),
        Key(<<"author", "given_name">>, TRUE)>>,
      <<Key(<<"pages">>, FALSE), Key(<<"title">>, FALSE),
        Key(<<"pages">>, TRUE)>> }

\* result := MergeWithDefaultOrder(defaultOrder, order)
CallMergeWithDefaultOrder ==
    /\ pc = "start"
    /\ \E d \in DefaultOrders, o \in Orders :
          /\ pc' = "merged"
          /\ mergeArgs' = [defaultOrder |-> d, order |-> o]
          /\ merged' = MergeWithDefaultOrder(d, o)
    /\ UNCHANGED <<sqlOrder, clause, usedBefore>>
    /\ UNCHANGED <<orderBy, orderVars, cursorVars, filterVars, maskVars,
                 resolveVars>>

\* clause, err := table.OrderByClause(order): a first call with a default
\* order, and a second call on the same table with any order
CallOrderByClause ==
    /\ pc \in {"start", "rendered"}
    /\ \E o \in IF pc = "start" THEN DefaultOrders ELSE Orders :
          /\ pc' = IF pc = "start" THEN "rendered" ELSE "rendered again"
          /\ sqlOrder' = o
          /\ clause' = OrderByClause(BookTable, o)
    /\ usedBefore' =
          IF clause.err THEN usedBefore
          ELSE usedBefore \cup
               { SortableColumnByFieldPath(BookTable,
                                           sqlOrder[i].segments).databaseName :
                     i \in 1..Len(sqlOrder) }
    /\ UNCHANGED <<mergeArgs, merged>>
    /\ UNCHANGED <<orderBy, orderVars, cursorVars, filterVars, maskVars,
                 resolveVars>>

NextSql ==
    \/ CallMergeWithDefaultOrder
    \/ CallOrderByClause

SpecSql == Init /\ [][NextSql]_vars

----------------------------------------------------------------------------
(* Claims about the orders for SQL, under SpecSql. *)

\* the field path of the key is named by some key of the order
NamedBy(order, key) ==
    \E i \in 1..Len(order) : order[i].segments = key.segments

\* C19: MergeWithDefaultOrder returns the explicit keys first, in their
\* positions and with their directions, then exactly the default keys whose
\* field path no explicit key names, in the default's relative order; with
\* an empty explicit order the result is the default order; neither
\* argument slice is modified.
C19_MergeWithDefaultOrder ==
    pc = "merged"
    => LET d == mergeArgs.defaultOrder
           o == mergeArgs.order
           r == merged.result
           kept == { i \in 1..Len(d) : ~NamedBy(o, d[i]) }
       IN /\ Len(r) = Len(o) + Cardinality(kept)
          /\ \A i \in 1..Len(o) : r[i] = o[i]
          /\ \A i \in kept :
                r[Len(o) + Cardinality({j \in kept : j <= i})] = d[i]
          /\ (o = << >>) => (r = d)
          /\ merged.defaultOrder = d
          /\ merged.order = o

\* C19 happens: an explicit order that names `title` was merged with the
\* default of three keys, and `title` has the explicit direction.
C19_Witness ==
    /\ pc = "merged"
    /\ mergeArgs.defaultOrder =
           <<Key(<<"title">>, TRUE), Key(<<"pages">>, FALSE),
             Key(<<"author", "given_name">>, TRUE)>>
    /\ mergeArgs.order = <<Key(<<"price">>, TRUE), Key(<<"title">>, FALSE)>>
    /\ merged.result =
           <<Key(<<"price">>, TRUE), Key(<<"title">>, FALSE),
             Key(<<"pages">>, FALSE), Key(<<"author", "given_name">>, TRUE)>>

\* the column the table maps the key to, << >> if none that is sortable
ColumnName(key) ==
    IF \E c \in BookTable : c.fieldPath = key.segments /\ c.sortable
    THEN (CHOOSE c \in BookTable :
              c.fieldPath = key.segments /\ c.sortable).databaseName
    ELSE << >>

\* every key maps to a sortable column, and no two keys to the same one
Renderable(order) ==
    /\ \A i \in 1..Len(order) : ColumnName(order[i]) # << >>
    /\ \A i, j \in 1..Len(order) :
          i # j => ColumnName(order[i]) # ColumnName(order[j])

\* C20: OrderByClause returns "" for an empty order; otherwise "ORDER BY ",
\* the column names in key order separated by ", ", each followed by
\* " DESC" iff its key is descending, and a newline; it returns an error
\* and "" if a key maps to no column, to a non-sortable column, or to a
\* column of an earlier key of the same call - whatever earlier calls
\* rendered.
C20_OrderByClause ==
    pc \in {"rendered", "rendered again"}
    => IF sqlOrder = << >> THEN clause = [text |-> << >>, err |-> FALSE]
       ELSE IF Renderable(sqlOrder)
       THEN /\ ~clause.err
            /\ clause.text =
                  <<79, 82, 68, 69, 82, 32, 66, 89, 32>>
                  \o Join([i \in 1..Len(sqlOrder) |->
                             ColumnName(sqlOrder[i])
                               \o (IF sqlOrder[i].Descending
                                   THEN <<32, 68, 69, 83, 67>> ELSE << >>)],
                          <<44, 32>>)
                  \o <<10>>
       ELSE clause = [text |-> << >>, err |-> TRUE]

\* C20 happens: a second call rendered the column "t", which the first call
\* had rendered, descending and followed by another column.
C20_Witness ==
    /\ pc = "rendered again"
    /\ <<116>> \in usedBefore
    /\ sqlOrder = <<Key(<<"in_print">>, TRUE), Key(<<"pages">>, FALSE)>>
    /\ clause = [text |-> <<79, 82, 68, 69, 82, 32, 66, 89, 32,
                            116, 32, 68, 69, 83, 67, 44, 32, 112, 10>>,
                 err |-> FALSE]

----------------------------------------------------------------------------
(* Field masks (package masks).  A path is a Go string; the model keeps it *)
(* as the sequence of its lexical units: a name, the wildcard "*", a       *)
(* digit, the dot "." and the backtick.  A segment is the sequence of the   *)
(* units between two dots.                                                 *)

\* the unit that stands for the character `
Backtick == "backtick"

\* most paths handed to one masks.New call
MaxPaths == 2

\* the descriptor the mask tests build: Book with the map<int32, string>
\* field items
MaskSchema ==
    [Book |-> Schema.Book @@
                 [items |-> Fd("items", 5, "message", "repeated",
                               "ItemsEntry", TRUE)],
     Author |-> Schema.Author,
     ReviewsEntry |-> Schema.ReviewsEntry,
     ItemsEntry |->
        [key   |-> Fd("key", 1, "int32", "optional", NoMsg, FALSE),
         value |-> Fd("value", 2, "string", "optional", NoMsg, FALSE)]]

\* desc.Fields().ByName(protoreflect.Name(seg)) for a segment
MaskByName(desc, seg) ==
    IF Len(seg) = 1 /\ seg[1] \in DOMAIN MaskSchema[desc]
    THEN MaskSchema[desc][seg[1]]
    ELSE NilFd

\* (segs, nil) and (nil, err)
Tokenized(segs) == [err |-> FALSE, segs |-> segs]
TokenizeError == [err |-> TRUE, segs |-> << >>]

RECURSIVE tokenizeFrom(_, _, _, _)
\* the loop of tokenizePath over the rest of the path, with the segments
\* so far, the builder b and inQuote
tokenizeFrom(path, segs, b, inQuote) ==
    IF path = << >>
    THEN IF inQuote THEN TokenizeError
         ELSE IF Len(b) > 0 THEN Tokenized(Append(segs, b))
         ELSE Tokenized(segs)
    ELSE IF Head(path) = "." /\ ~inQuote
         THEN IF Len(b) = 0 THEN TokenizeError
              ELSE tokenizeFrom(Tail(path), Append(segs, b), << >>, inQuote)
    ELSE tokenizeFrom(Tail(path), segs, Append(b, Head(path)),
                      IF Head(path) = Backtick THEN ~inQuote ELSE inQuote)

tokenizePath(path) == tokenizeFrom(path, << >>, << >>, FALSE)

Digits == {"0", "1"}

isAllDigits(s) == s # << >> /\ \A i \in 1..Len(s) : s[i] \in Digits

isIntegerKind(k) == k \in {"int32"}

findFieldBySegment(desc, seg) == MaskByName(desc, seg)

\* f.IsList()
IsList(f) == f.card = "repeated" /\ ~f.isMap

RECURSIVE validateSegments(_, _, _, _, _)
\* the loop of validatePath from segment i on, with curr: TRUE when it
\* returns an error.  (tokenizePath yields no segment that is one backtick,
\* so a quoted segment has at least two units.)
validateSegments(mode, segments, i, curr, seg) ==
    LET isLast == i = Len(segments)
        continue(c) ==
            IF isLast THEN FALSE
            ELSE validateSegments(mode, segments, i + 1, c, segments[i + 1])
        numeric(parentField) ==
            IF parentField = NilFd THEN TRUE
            ELSE IF parentField.isMap
                    /\ isIntegerKind(MaskSchema[parentField.msg].key.kind)
                 THEN continue(curr)
            ELSE TRUE
        field(f) ==
            IF f = NilFd
            THEN IF isAllDigits(seg)
                 THEN IF i = 1 THEN TRUE
                      ELSE numeric(findFieldBySegment(curr, segments[i - 1]))
                 ELSE mode = "ModeWrite"
            ELSE IF IsList(f) \/ f.isMap THEN continue(curr)
            ELSE IF f.kind = "message" THEN continue(f.msg)
            ELSE IF ~isLast THEN TRUE
            ELSE continue(curr)
    IN IF seg = <<"*">> THEN (IF i = 1 THEN TRUE ELSE continue(curr))
       ELSE IF Head(seg) = Backtick /\ seg[Len(seg)] = Backtick
       THEN IF \E j \in 2..(Len(seg) - 1) : seg[j] = Backtick THEN TRUE
            ELSE IF i = 1 THEN TRUE
            ELSE continue(curr)
       ELSE field(MaskByName(curr, seg))

\* validatePath accepting a nonexistent field in either mode
validatePathTolerant(desc, mode, path) ==
    LET walk(t) ==
            IF t.err THEN TRUE
            ELSE IF t.segs = << >> THEN FALSE
            ELSE validateSegments("ModeRead", t.segs, 1, desc, t.segs[1])
    IN IF path = << >> THEN TRUE ELSE walk(tokenizePath(path))

\* TRUE when validatePath returns an error
validatePath(desc, mode, path) ==
    LET walk(t) ==
            IF t.err THEN TRUE
            ELSE IF t.segs = << >> THEN FALSE
            ELSE validateSegments(mode, t.segs, 1, desc, t.segs[1])
    IN IF path = << >> THEN TRUE ELSE walk(tokenizePath(path))

\* (mask, nil) and (nil, err); fm is a pointer to a FieldMask
Masked(paths) == [err |-> FALSE, fm |-> <<[Paths |-> paths]>>]
MaskError == [err |-> TRUE, fm |-> << >>]

New(desc, mode, paths) ==
    IF \E i \in 1..Len(paths) : validatePath(desc, mode, paths[i])
    THEN MaskError
    ELSE Masked(paths)

RECURSIVE Dots(_)
\* the path with the given one-unit segments
Dots(names) ==
    IF Len(names) <= 1 THEN names
    ELSE <<Head(names), ".">> \o Dots(Tail(names))

\* the paths of the mask tests, and one more for each branch of
\* validatePath and tokenizePath
MaskPaths ==
    { Dots(<<"title">>), Dots(<<"author", "given_name">>),
      Dots(<<"reviews", "smith">>),
      <<"reviews", ".", Backtick, "smith", Backtick>>,
      <<"items", ".", "1", "0">>, Dots(<<"items", "0">>),
      Dots(<<"authors", "*", "given_name">>),
      Dots(<<"title", "*">>), Dots(<<"authors", "0", "given_name">>),
      Dots(<<"does_not_exist">>),
      Dots(<<"author", "does_not_exist">>),
      Dots(<<"does_not_exist", "title", "*">>),
      Dots(<<"title", "does_not_exist">>),
      Dots(<<"authors", "given_name">>), Dots(<<"authors", "*">>),
      Dots(<<"authors", "family_name">>),
      Dots(<<"author">>), Dots(<<"author", "*">>), Dots(<<"*">>),
      Dots(<<"*", "title">>), Dots(<<"reviews", "*">>),
      Dots(<<"reviews", "0">>), Dots(<<"author", "0">>), Dots(<<"0">>),
      <<Backtick, "smith", Backtick>>, <<"reviews", ".", Backtick, "smith">>,
      <<"reviews", ".", Backtick, "a", Backtick, Backtick, "b", Backtick>>,
      <<".", "title">>, <<"title", ".">>, << >> }

Modes == {"ModeRead", "ModeWrite"}

\* mask, err := masks.New(desc, mode, paths...)
CallNew ==
    /\ pc = "start"
    /\ \E mode \in Modes :
          \E n \in 0..MaxPaths :
             \E paths \in [1..n -> MaskPaths] :
                /\ maskArgs' = [mode |-> mode, paths |-> paths]
                /\ maskOut' = New("Book", mode, paths)
    /\ pc' = "masked"
    /\ UNCHANGED <<pruneArgs, pruneOut, rpcVars>>
    /\ UNCHANGED <<orderBy, orderVars, cursorVars, filterVars, sqlVars,
                 resolveVars>>

\* a node of the trie of mask paths: the set of what is left of the paths
\* that lead through it.  children[seg] is the node of the rests of the
\* paths that go on with seg, and nil when there is none.
HasChild(trie, seg) == \E p \in trie : p # << >> /\ Head(p) = seg

Child(trie, seg) == { Tail(p) : p \in { q \in trie : q # << >> /\ Head(q) = seg } }

\* the root; a path that does not tokenize adds nothing
newMaskTrie(paths) == { tokenizePath(paths[i]).segs : i \in 1..Len(paths) }

RECURSIVE masksPruneMessage(_, _, _)
\* pruneMessage of package masks: the message as the loop over its fields
\* leaves it
masksPruneMessage(m, desc, trie) ==
    LET elementTrie(subTrie) ==
            IF HasChild(subTrie, <<"*">>) THEN Child(subTrie, <<"*">>)
            ELSE subTrie
        elements(fd, t) ==
            [i \in 1..Len(m[fd.name]) |->
                IF m[fd.name][i].has
                THEN masksPruneMessage(m[fd.name][i], fd.msg, t)
                ELSE m[fd.name][i]]
        values(fd, t) ==
            IF Schema[fd.msg].value.kind = "message"
            THEN [i \in 1..Len(m[fd.name]) |->
                     [m[fd.name][i] EXCEPT !.value =
                         IF @.has
                         THEN masksPruneMessage(@, Schema[fd.msg].value.msg, t)
                         ELSE @]]
            ELSE m[fd.name]
        \* m.Mutable(fd) sets an unset record field to an empty record
        present(fd, t) ==
            IF fd.kind # "message" THEN m[fd.name]
            ELSE IF IsList(fd) THEN elements(fd, t)
            ELSE IF fd.isMap THEN values(fd, t)
            ELSE masksPruneMessage([m[fd.name] EXCEPT !.has = TRUE], fd.msg, t)
        wildcard(fd, t) ==
            IF IsList(fd) /\ fd.kind = "message" THEN elements(fd, t)
            ELSE IF fd.isMap THEN values(fd, t)
            ELSE m[fd.name]
        field(fd) ==
            IF HasChild(trie, <<fd.name>>)
            THEN present(fd, elementTrie(Child(trie, <<fd.name>>)))
            ELSE IF HasChild(trie, <<"*">>)
            THEN wildcard(fd, Child(trie, <<"*">>))
            ELSE NewMessage(desc)[fd.name]
    IN [n \in DOMAIN m |-> IF n = "has" THEN m.has ELSE field(Schema[desc][n])]

\* the message as PruneMessage leaves it (msg points to a Book, or is nil)
\* and the error it returns
PruneMessage(msg, mask) ==
    IF msg = << >> THEN [msg |-> msg, err |-> FALSE]
    ELSE IF mask = << >> THEN [msg |-> msg, err |-> FALSE]
    ELSE [msg |-> <<masksPruneMessage(msg[1], "Book",
                                      newMaskTrie(mask[1].Paths))>>,
          err |-> FALSE]

\* the messages handed to PruneMessage: nil, and books with every field
\* set, with some fields set and with none
PruneMessages ==
    { << >>,
      <<Book(StrA, Author(TRUE, StrA, StrB),
             <<Author(TRUE, StrA, StrB), Author(TRUE, StrB, StrA)>>,
             <<[key |-> StrA, value |-> StrB]>>, StrB, 1, TRUE, 1)>>,
      <<[ZeroBook EXCEPT !.title = StrA, !.name = StrB]>>,
      <<ZeroBook>> }

\* err := masks.PruneMessage(msg, mask), with a nil mask or with the mask
\* that masks.New returned for ModeRead
CallPruneMessage ==
    /\ pc \in {"start", "masked"}
    /\ pc = "masked" => maskArgs.mode = "ModeRead" /\ ~maskOut.err
    /\ \E msg \in PruneMessages :
          /\ pruneArgs' = [msg |-> msg, mask |-> maskOut.fm]
          /\ pruneOut' = PruneMessage(msg, maskOut.fm)
    /\ pc' = "pruned"
    /\ UNCHANGED <<maskArgs, maskOut, rpcVars>>
    /\ UNCHANGED <<orderBy, orderVars, cursorVars, filterVars, sqlVars,
                 resolveVars>>

NextMask ==
    \/ CallNew
    \/ CallPruneMessage

SpecMask == Init /\ [][NextMask]_vars

RECURSIVE ReachesUnknown(_, _)
\* the segments lead through singular record fields to a name that is no
\* field of the record reached
ReachesUnknown(desc, segs) ==
    /\ segs # << >>
    /\ Len(Head(segs)) = 1
    /\ Head(segs)[1] \notin Digits \cup {"*", Backtick}
    /\ \/ Head(segs)[1] \notin DOMAIN MaskSchema[desc]
       \/ /\ Head(segs)[1] \in DOMAIN MaskSchema[desc]
          /\ MaskSchema[desc][Head(segs)[1]].kind = "message"
          /\ MaskSchema[desc][Head(segs)[1]].card = "optional"
          /\ ReachesUnknown(MaskSchema[desc][Head(segs)[1]].msg, Tail(segs))

\* the path is one name, and the name is a field of Book
TopLevelField(path) ==
    Len(path) = 1 /\ path[1] \in DOMAIN MaskSchema["Book"]

DriftPath(path) ==
    ~tokenizePath(path).err /\ ReachesUnknown("Book", tokenizePath(path).segs)

\* C21: masks.New accepts in ModeRead, and rejects in ModeWrite, a path
\* that leads to a name (not a number, wildcard or quoted key) that is no
\* field of the record being walked; when a path is invalid it returns an
\* error and a nil mask, and otherwise a mask whose paths are the given
\* paths in the given order.
C21_SchemaDrift ==
    pc = "masked" =>
        /\ (/\ maskArgs.mode = "ModeRead"
            /\ \A i \in 1..Len(maskArgs.paths) :
                  DriftPath(maskArgs.paths[i])
                      \/ TopLevelField(maskArgs.paths[i]))
           => ~maskOut.err
        /\ (/\ maskArgs.mode = "ModeWrite"
            /\ \E i \in 1..Len(maskArgs.paths) : DriftPath(maskArgs.paths[i]))
           => maskOut.err
        /\ maskOut.err => maskOut.fm = << >>
        /\ ~maskOut.err => maskOut.fm = <<[Paths |-> maskArgs.paths]>>
        /\ maskOut.err <=>
              \E i \in 1..Len(maskArgs.paths) :
                 validatePath("Book", maskArgs.mode, maskArgs.paths[i])

C21_Witness ==
    /\ pc = "masked"
    /\ maskArgs.mode = "ModeRead"
    /\ maskArgs.paths = <<Dots(<<"author", "does_not_exist">>),
                          Dots(<<"title">>)>>
    /\ maskOut = Masked(maskArgs.paths)

RECURSIVE LastField(_, _)
\* the field that the last of the segments names, when the segments before
\* it name singular record fields; NilFd otherwise
LastField(desc, segs) ==
    IF segs = << >> THEN NilFd
    ELSE IF Len(segs) = 1 THEN MaskByName(desc, segs[1])
    ELSE IF MaskByName(desc, Head(segs)).kind = "message"
            /\ MaskByName(desc, Head(segs)).card = "optional"
         THEN LastField(MaskByName(desc, Head(segs)).msg, Tail(segs))
    ELSE NilFd

\* the wildcard is segment i of the path, and it is the first segment or
\* directly follows a scalar field or a singular record field
MisplacedWildcard(path, i) ==
    /\ ~tokenizePath(path).err
    /\ i \in 1..Len(tokenizePath(path).segs)
    /\ tokenizePath(path).segs[i] = <<"*">>
    /\ \/ i = 1
       \/ /\ LastField("Book", SubSeq(tokenizePath(path).segs, 1, i - 1))
                 # NilFd
          /\ LastField("Book", SubSeq(tokenizePath(path).segs, 1, i - 1)).card
                 # "repeated"

\* C26: masks.New rejects every path in which the wildcard `*` is the first
\* segment or directly follows a scalar field (title.*) or a singular
\* embedded record field (author.*).
C26_WildcardPlacement ==
    (/\ pc = "masked"
     /\ \E k \in 1..Len(maskArgs.paths) :
           \E i \in 1..Len(maskArgs.paths[k]) :
              MisplacedWildcard(maskArgs.paths[k], i))
    => maskOut.err

\* the segments of a tokenized path that name fields: a wildcard after a
\* repeated or map field stands for its elements and names nothing itself
FieldSegments(segs) == SelectSeq(segs, LAMBDA seg : seg # <<"*">>)

\* the field positions that the paths of the mask name
NamedPositions(fm) ==
    { FieldSegments(tokenizePath(fm.Paths[i]).segs) : i \in 1..Len(fm.Paths) }

IsPrefix(p, q) == Len(p) <= Len(q) /\ SubSeq(q, 1, Len(p)) = p

\* a path of the mask names the position
Names(fm, pos) == pos \in NamedPositions(fm)

\* a path of the mask names the position, a field above it or a field
\* below it
Touches(fm, pos) ==
    \E p \in NamedPositions(fm) : IsPrefix(p, pos) \/ IsPrefix(pos, p)

\* every wildcard of the mask follows a repeated or map field
WildcardsPlaced(fm) ==
    \A k \in 1..Len(fm.Paths) :
       \A i \in 1..Len(fm.Paths[k]) : ~MisplacedWildcard(fm.Paths[k], i)

\* what the claim requires of the fields of one record: after is the
\* record as pruned, before the record as given, above the position of the
\* record
PrunedAsNamed(fm, desc, above, before, after) ==
    \A n \in DOMAIN Schema[desc] :
       /\ ~Touches(fm, Append(above, <<n>>))
             => after[n] = NewMessage(desc)[n]
       /\ (Schema[desc][n].kind # "message" /\ ~IsList(Schema[desc][n])
             /\ Names(fm, Append(above, <<n>>)))
             => after[n] = before[n]

\* C22: PruneMessage with a non-nil mask clears, at every nesting level and
\* in every element of a repeated record field, each field that no path of
\* the mask names, and leaves every scalar field that a path names as it
\* was; the masks authors.given_name and authors.*.given_name prune alike;
\* with a nil mask or a nil message the message is left as it was; no call
\* returns an error.
C22_PruneMessage ==
    pc = "pruned" =>
        /\ ~pruneOut.err
        /\ (pruneArgs.msg = << >> \/ pruneArgs.mask = << >>)
              => pruneOut.msg = pruneArgs.msg
        /\ (pruneArgs.msg # << >> /\ pruneArgs.mask # << >>
               /\ WildcardsPlaced(pruneArgs.mask[1]))
              => /\ PrunedAsNamed(pruneArgs.mask[1], "Book", << >>,
                                  pruneArgs.msg[1], pruneOut.msg[1])
                 /\ pruneOut.msg[1].author.has
                       => PrunedAsNamed(pruneArgs.mask[1], "Author",
                                        << <<"author">> >>,
                                        pruneArgs.msg[1].author,
                                        pruneOut.msg[1].author)
                 /\ \A i \in 1..Len(pruneOut.msg[1].authors) :
                       /\ Len(pruneOut.msg[1].authors)
                             = Len(pruneArgs.msg[1].authors)
                       /\ PrunedAsNamed(pruneArgs.mask[1], "Author",
                                        << <<"authors">> >>,
                                        pruneArgs.msg[1].authors[i],
                                        pruneOut.msg[1].authors[i])
        /\ (pruneArgs.mask
               = <<[Paths |-> <<Dots(<<"authors", "given_name">>)>>]>>)
              => pruneOut
                    = PruneMessage(pruneArgs.msg,
                         <<[Paths |->
                              <<Dots(<<"authors", "*", "given_name">>)>>]>>)

\* C30: when a path of the mask ends at the singular record field author,
\* PruneMessage leaves the author of the message, with all of its fields,
\* as it was.
C30_RecordKeptWhole ==
    (/\ pc = "pruned"
     /\ pruneArgs.msg # << >>
     /\ pruneArgs.mask # << >>
     /\ pruneArgs.mask[1].Paths # << >>
     /\ \E i \in 1..Len(pruneArgs.mask[1].Paths) :
           pruneArgs.mask[1].Paths[i] = Dots(<<"author">>)
     /\ pruneArgs.msg[1].author.has)
    => pruneOut.msg[1].author = pruneArgs.msg[1].author

\* ---------------------------------------------------------------------
\* The read-mask interceptor (masks/connectrpc.go).  A header value is the
\* sequence of its units: the units of paths, "," and " ".

MaxSends == 2

RECURSIVE Split(_, _)
\* strings.Split(s, ","), cur being the part read so far
Split(s, cur) ==
    IF s = << >> THEN <<cur>>
    ELSE IF Head(s) = "," THEN <<cur>> \o Split(Tail(s), << >>)
    ELSE Split(Tail(s), Append(cur, Head(s)))

RECURSIVE TrimLeft(_)
TrimLeft(p) ==
    IF p # << >> /\ Head(p) = " " THEN TrimLeft(Tail(p)) ELSE p

RECURSIVE TrimRight(_)
TrimRight(p) ==
    IF p # << >> /\ p[Len(p)] = " " THEN TrimRight(SubSeq(p, 1, Len(p) - 1))
    ELSE p

\* strings.TrimSpace
TrimSpace(p) == TrimRight(TrimLeft(p))

\* the fields of a comma-separated list, trimmed, without the empty ones
splitComma(s) ==
    LET nonEmpty(parts) == SelectSeq(parts, LAMBDA p : p # << >>)
        trimmed(parts) == [i \in 1..Len(parts) |-> TrimSpace(parts[i])]
    IN nonEmpty(trimmed(Split(s, << >>)))

\* a message as the handler hands it on: a proto.Message (a Book) or not
ProtoMessage(book) == [isProto |-> TRUE, pm |-> <<book>>]

RawMessage == [isProto |-> FALSE, pm |-> << >>]

\* the book of the fake service of the tests, and the messages of the
\* PruneMessage tests
HandlerMessages ==
    { ProtoMessage([ZeroBook EXCEPT !.title = StrA, !.name = StrB,
                                    !.author = Author(TRUE, StrA, StrB)]),
      ProtoMessage(Book(StrA, Author(TRUE, StrA, StrB),
                        <<Author(TRUE, StrA, StrB), Author(TRUE, StrB, StrA)>>,
                        <<[key |-> StrA, value |-> StrB]>>, StrB, 1, TRUE, 1)),
      ProtoMessage(ZeroBook),
      RawMessage }

\* the values of the configured header: absent, the value of the tests,
\* values with blanks and empty items, invalid masks, and one more
Headers ==
    { << >>,
      <<"title", ",", "author", ".", "given_name">>,
      <<" ", "title", " ", ",", ",", " ", "name">>,
      <<",">>, <<" ">>,
      <<"title", ".", "*">>,
      <<"title", ",", "authors", ".", "0", ".", "given_name">>,
      <<"author">>, <<"does_not_exist">>,
      <<"authors", ".", "*", ".", "given_name", ",",
        "authors", ".", "family_name">> }

\* what the interceptor decides before the wrapped handler is called: to
\* hand the call on as it is, to reject it, or to go on with a mask
Passed == [pruning |-> FALSE, rejected |-> FALSE, fm |-> << >>]

Rejected == [pruning |-> FALSE, rejected |-> TRUE, fm |-> << >>]

\* the interceptor without the validation of the mask
readMaskUnvalidated(isProto, headerVal) ==
    IF ~isProto THEN Passed
    ELSE IF headerVal = << >> THEN Passed
    ELSE [pruning |-> TRUE, rejected |-> FALSE,
          fm |-> <<[Paths |-> splitComma(headerVal)]>>]

\* the prologue of WrapUnary and WrapStreamingHandler; the output of every
\* method is Book
readMask(isProto, headerVal) ==
    IF ~isProto THEN Passed
    ELSE IF headerVal = << >> THEN Passed
    ELSE LET decide(r) ==
                 IF r.err THEN Rejected
                 ELSE [pruning |-> TRUE, rejected |-> FALSE, fm |-> r.fm]
         IN decide(New("Book", "ModeRead", splitComma(headerVal)))

\* what a send leaves: the messages that went on (one or none), whether it
\* returned an error, and the calls of PruneMessage it made
Forwarded(msg, calls) == [out |-> <<msg>>, err |-> FALSE, calls |-> calls]

\* pruningConn.Send that hands the message on as it is
pruningConnSendUnpruned(fm, msg) ==
    Forwarded(msg, 0)

\* pruningConn.Send
pruningConnSend(fm, msg) ==
    IF ~msg.isProto THEN Forwarded(msg, 0)
    ELSE LET after(r) ==
                 IF r.err THEN [out |-> << >>, err |-> TRUE, calls |-> 1]
                 ELSE Forwarded([msg EXCEPT !.pm = r.msg], 1)
         IN after(PruneMessage(msg.pm, fm))

\* what WrapUnary does with what the handler returned: the response, the
\* error ("" for nil) and the calls of PruneMessage
unaryReturn(pruning, fm, rsp, failed) ==
    IF ~pruning
    THEN IF failed THEN [out |-> << >>, err |-> "handler", calls |-> 0]
         ELSE [out |-> <<rsp>>, err |-> "", calls |-> 0]
    ELSE IF failed THEN [out |-> << >>, err |-> "handler", calls |-> 0]
    ELSE IF ~rsp.isProto THEN [out |-> <<rsp>>, err |-> "", calls |-> 0]
    ELSE LET after(r) ==
                 IF r.err
                 THEN [out |-> << >>, err |-> "internal", calls |-> 1]
                 ELSE [out |-> <<[rsp EXCEPT !.pm = r.msg]>>, err |-> "",
                       calls |-> 1]
         IN after(PruneMessage(rsp.pm, fm))

\* a call reaches the interceptor and gets as far as the wrapped handler
\* or is turned down before
Intercept(kind, atHandler) ==
    /\ pc = "start"
    /\ \E isProto \in BOOLEAN :
          \E headerVal \in Headers :
             LET enter(r) ==
                     /\ rpcConn' = [pruning |-> r.pruning, fm |-> r.fm]
                     /\ invoked' = IF r.rejected THEN invoked ELSE invoked + 1
                     /\ rpcErr' = IF r.rejected THEN "invalid_argument"
                                  ELSE ""
                     /\ pc' = IF r.rejected THEN "rpcReturned" ELSE atHandler
             IN /\ rpcReq' = [kind |-> kind, isProto |-> isProto,
                              header |-> headerVal]
                /\ enter(readMask(isProto, headerVal))
    /\ UNCHANGED <<handed, sent, pruneCalls>>
    /\ UNCHANGED <<maskArgs, maskOut, pruneArgs, pruneOut>>
    /\ UNCHANGED <<orderBy, orderVars, cursorVars, filterVars, sqlVars,
                 resolveVars>>

\* the closure of WrapUnary up to its call of fn
CallWrapUnary == Intercept("unary", "unaryHandler")

\* the closure of WrapStreamingHandler up to its call of fn
CallWrapStreamingHandler == Intercept("stream", "streamHandler")

\* the unary handler returns a response or an error, and WrapUnary returns
UnaryHandlerReturns ==
    /\ pc = "unaryHandler"
    /\ \E rsp \in HandlerMessages :
          \E failed \in BOOLEAN :
             LET leave(r) ==
                     /\ sent' = r.out
                     /\ rpcErr' = r.err
                     /\ pruneCalls' = pruneCalls + r.calls
             IN /\ handed' = IF failed THEN << >> ELSE <<rsp>>
                /\ leave(unaryReturn(rpcConn.pruning, rpcConn.fm, rsp, failed))
    /\ pc' = "rpcReturned"
    /\ UNCHANGED <<rpcReq, rpcConn, invoked>>
    /\ UNCHANGED <<maskArgs, maskOut, pruneArgs, pruneOut>>
    /\ UNCHANGED <<orderBy, orderVars, cursorVars, filterVars, sqlVars,
                 resolveVars>>

\* the streaming handler sends a message on the connection it was given
HandlerSend ==
    /\ pc = "streamHandler"
    /\ Len(handed) < MaxSends
    /\ \E msg \in HandlerMessages :
          LET leave(r) ==
                  /\ sent' = sent \o r.out
                  /\ pruneCalls' = pruneCalls + r.calls
          IN /\ handed' = Append(handed, msg)
             /\ leave(IF rpcConn.pruning
                      THEN pruningConnSend(rpcConn.fm, msg)
                      ELSE Forwarded(msg, 0))
    /\ UNCHANGED <<pc, rpcReq, rpcConn, invoked, rpcErr>>
    /\ UNCHANGED <<maskArgs, maskOut, pruneArgs, pruneOut>>
    /\ UNCHANGED <<orderBy, orderVars, cursorVars, filterVars, sqlVars,
                 resolveVars>>

\* the streaming handler returns, and the interceptor returns what it
\* returned
StreamHandlerReturns ==
    /\ pc = "streamHandler"
    /\ \E failed \in BOOLEAN :
          rpcErr' = IF failed THEN "handler" ELSE ""
    /\ pc' = "rpcReturned"
    /\ UNCHANGED <<rpcReq, rpcConn, invoked, handed, sent, pruneCalls>>
    /\ UNCHANGED <<maskArgs, maskOut, pruneArgs, pruneOut>>
    /\ UNCHANGED <<orderBy, orderVars, cursorVars, filterVars, sqlVars,
                 resolveVars>>

NextRpc ==
    \/ CallWrapUnary
    \/ CallWrapStreamingHandler
    \/ UnaryHandlerReturns
    \/ HandlerSend
    \/ StreamHandlerReturns

SpecRpc == Init /\ [][NextRpc]_vars

\* every item of the header value is a path that is valid for reading Book
ValidHeader(headerVal) ==
    \A i \in 1..Len(splitComma(headerVal)) :
       ~validatePath("Book", "ModeRead", splitComma(headerVal)[i])

HeaderMask(headerVal) == <<[Paths |-> splitComma(headerVal)]>>

InRpc == pc \in {"unaryHandler", "streamHandler", "rpcReturned"}

\* C23: for a method with a protobuf schema and a header that carries a
\* valid comma-separated mask, every protobuf message that went on to the
\* client (the unary response, each message of a server stream) is the
\* message of the handler pruned to that mask: PruneMessage has been applied
\* to it with the paths of the header, so every field of Book that no path
\* touches is cleared; when the header is empty the handler runs, nothing
\* is pruned and its messages go on as they are.
C23_ReadMaskPrunes ==
    (InRpc /\ rpcReq.isProto) =>
        /\ (rpcReq.header # << >> /\ ValidHeader(rpcReq.header))
              => /\ invoked = 1
                 /\ Len(sent) = Len(handed)
                 /\ \A i \in 1..Len(sent) :
                       /\ sent[i].isProto = handed[i].isProto
                       /\ handed[i].isProto
                             => /\ sent[i].pm
                                     = PruneMessage(handed[i].pm,
                                          HeaderMask(rpcReq.header)).msg
                                /\ \A n \in DOMAIN Schema["Book"] :
                                      ~Touches(HeaderMask(rpcReq.header)[1],
                                               << <<n>> >>)
                                         => sent[i].pm[1][n] = ZeroBook[n]
        /\ rpcReq.header = << >>
              => /\ invoked = 1
                 /\ sent = handed
                 /\ pruneCalls = 0

C23_Witness ==
    /\ pc = "rpcReturned"
    /\ rpcReq = [kind |-> "stream", isProto |-> TRUE,
                 header |-> <<"title", ",", "author", ".", "given_name">>]
    /\ rpcErr = ""
    /\ Len(sent) = 2
    /\ handed[1].isProto /\ handed[2].isProto
    /\ handed[1].pm[1].name = StrB
    /\ handed[1].pm[1].author.family_name = StrB
    /\ sent[1].pm[1].title = StrA
    /\ sent[1].pm[1].name = EmptyStr
    /\ sent[1].pm[1].author.given_name = StrA
    /\ sent[1].pm[1].author.family_name = EmptyStr
    /\ sent[2] # handed[2]

\* C27: the mask of the header is validated before the wrapped handler is
\* called: when an item of the header is not a valid path the interceptor
\* returns InvalidArgument and the handler is never called, unary and
\* streaming; the handler is called at most once and only for a valid or
\* absent mask; when the unary handler returns an error the interceptor
\* returns that error, no response, and PruneMessage is not called.
C27_ValidatedFirst ==
    InRpc =>
        /\ (rpcReq.isProto /\ rpcReq.header # << >>
               /\ ~ValidHeader(rpcReq.header))
              => /\ pc = "rpcReturned"
                 /\ rpcErr = "invalid_argument"
                 /\ invoked = 0
                 /\ handed = << >> /\ sent = << >> /\ pruneCalls = 0
        /\ invoked <= 1
        /\ invoked = 1
              => \/ ~rpcReq.isProto
                 \/ rpcReq.header = << >>
                 \/ ValidHeader(rpcReq.header)
        /\ rpcErr = "invalid_argument" => invoked = 0
        /\ (pc = "rpcReturned" /\ rpcReq.kind = "unary" /\ invoked = 1
               /\ handed = << >>)
              => rpcErr = "handler" /\ sent = << >> /\ pruneCalls = 0

C27_Witness ==
    /\ pc = "rpcReturned"
    /\ rpcReq = [kind |-> "stream", isProto |-> TRUE,
                 header |-> <<"title", ",", "authors", ".", "0", ".",
                              "given_name">>]
    /\ rpcErr = "invalid_argument"
    /\ invoked = 0

\* ---------------------------------------------------------------------
\* Resolution of a member in records whose nested records have repeated
\* and map fields.

Shelf(book, books) == [has |-> TRUE, book |-> book, books |-> books]

\* Get of the unset field book
NoBook == [ZeroBook EXCEPT !.has = FALSE]

ShelfBooks ==
    { Book(StrA, Author(TRUE, StrA, StrB),
           <<Author(TRUE, StrA, StrB), Author(TRUE, StrB, StrA)>>,
           <<[key |-> StrA, value |-> StrB]>>, StrB, 1, TRUE, 1),
      [ZeroBook EXCEPT !.title = StrB],
      ZeroBook }

\* the records handed to resolveMemberValue, each with its descriptor
ResolveRecords ==
    { [desc |-> "Shelf", m |-> Shelf(b, << >>)] : b \in ShelfBooks \cup {NoBook} }
    \cup { [desc |-> "Shelf", m |-> Shelf(NoBook, <<b>>)] : b \in ShelfBooks }
    \cup { [desc |-> "Shelf", m |-> Shelf(b, <<b, ZeroBook>>)] : b \in ShelfBooks }
    \cup { [desc |-> "Book", m |-> b] : b \in ShelfBooks }

\* the members: paths that end at, or go on below, a scalar, a record, a
\* repeated record and a map, at the top and below a record
ResolveMembers ==
    { PathMember(p) :
        p \in { <<"book">>, <<"books">>, <<"title">>, <<"reviews">>,
                <<"authors">>, <<"no_such_field">>,
                <<"no_such_field", "title">>,
                <<"reviews", "smith">>, <<"title", "name">>,
                <<"authors", "family_name">>, <<"author", "given_name">>,
                <<"author", "given_name", "name">>,
                <<"book", "title">>, <<"book", "reviews">>,
                <<"book", "authors">>, <<"book", "no_such_field">>,
                <<"book", "title", "name">>,
                <<"book", "author", "given_name">>,
                <<"book", "reviews", "smith">>,
                <<"book", "authors", "family_name">>,
                <<"books", "title">>, <<"books", "reviews">>,
                <<"books", "reviews", "smith">>,
                <<"books", "authors", "family_name">>,
                <<"books", "author", "family_name">> } }

\* v, err := resolveMemberValue(m.ProtoReflect(), mem)
CallResolveMemberValue ==
    /\ pc = "start"
    /\ \E r \in ResolveRecords :
          \E mem \in ResolveMembers :
             /\ resolveArgs' = [desc |-> r.desc, m |-> r.m, mem |-> mem]
             /\ resolveOut' = resolveMemberValue(r.m, r.desc, mem)
    /\ pc' = "resolved"
    /\ UNCHANGED <<orderBy, orderVars, cursorVars, filterVars, sqlVars,
                   maskVars>>

NextResolve ==
    CallResolveMemberValue

SpecResolve == Init /\ [][NextResolve]_vars

RECURSIVE DescentBelow(_, _, _)
\* what the descent rule gives for the fields below a record that is set:
\* the last field whole; no way on below a map or a scalar; one
\* sub-resolution per element below a repeated record; nil below an unset
\* record
DescentBelow(cur, desc, fields) ==
    LET fd == ByName(desc, Head(fields))
        each(elems) ==
            [i \in 1..Len(elems) |->
                IF ~elems[i].has THEN Resolved(NilValue)
                ELSE DescentBelow(elems[i], fd.msg, Tail(fields))]
        all(subs) ==
            IF \E i \in 1..Len(subs) : subs[i].err THEN ResolveError
            ELSE Resolved(Val("slice", [i \in 1..Len(subs) |-> subs[i].v]))
    IN IF fd = NilFd THEN ResolveError
       ELSE IF Len(fields) = 1
       THEN IF fd.isMap THEN Resolved(MapInterface(cur[fd.name]))
            ELSE IF fd.card = "repeated"
            THEN Resolved(ListInterface(fd, cur[fd.name]))
            ELSE Resolved(Interface(fd, cur[fd.name]))
       ELSE IF fd.isMap THEN ResolveError
       ELSE IF fd.kind # "message" THEN ResolveError
       ELSE IF fd.card = "repeated" THEN all(each(cur[fd.name]))
       ELSE IF ~cur[fd.name].has THEN Resolved(NilValue)
       ELSE DescentBelow(cur[fd.name], fd.msg, Tail(fields))

\* the member names a field of the record with its first segment
NamesField(desc, mem) ==
    \E n \in DOMAIN Schema[desc] : NameBytes(n) = mem.Value

FieldNames(desc, mem) ==
    <<CHOOSE n \in DOMAIN Schema[desc] : NameBytes(n) = mem.Value>>
        \o mem.Fields

\* C24: at every depth of a dotted filter path a map field and a scalar
\* field cannot be descended into (the resolution returns an error: no
\* value, no panic), a repeated record field is descended into with one
\* sub-resolution per element, and a map or repeated field that is the
\* last segment is returned whole.
C24_PathDescent ==
    (pc = "resolved" /\ NamesField(resolveArgs.desc, resolveArgs.mem))
    => /\ ~resolveOut.panic
       /\ resolveOut = DescentBelow(resolveArgs.m, resolveArgs.desc,
                                    FieldNames(resolveArgs.desc,
                                               resolveArgs.mem))

\* C25: a compiled comparator keeps comparing by the order that was
\* validated when it was compiled: whatever the caller writes afterwards
\* into the slice it handed in, every call of the closure returns what the
\* validated order gives for the two records.
C25_ImmutableComparator ==
    pc = "called" =>
        out = IF closure.kind = "cmp"
              THEN compareKeys("Book", validated, argA, argB)
              ELSE lessClosure("Book", validated, argA, argB)

\* C28: the record D that DecodeCursor returns for the token NewCursor made
\* of R, with the same order, key and context, is equivalent to R under
\* the order: the comparator gives 0 for (D, R) and for (R, D), and the
\* cursor filter of D rejects R and accepts exactly the records that the
\* cursor filter of R accepts, also when a nested record on a path of the
\* order is unset in R.
C28_DecodedEquivalent ==
    DecodedAsMinted =>
        /\ ~decoded.err
        /\ ~decoded.isNil
        /\ compareKeys("Book", orderBy, decoded.msg, cursor.m) = Returned(0)
        /\ compareKeys("Book", orderBy, cursor.m, decoded.msg) = Returned(0)
        /\ lessClosure("Book", orderBy, decoded.msg, cursor.m)
              = Returned(FALSE)
        /\ \A x \in Records \cup CursorRecords :
              lessClosure("Book", orderBy, decoded.msg, x)
                 = lessClosure("Book", orderBy, cursor.m, x)

\* C29: the cursor and the comparator agree on which orders are valid:
\* for every record that can be serialized and every order, NewCursor
\* returns an error exactly when Comparer and Less return one for the
\* order - for fields that do not exist, for repeated and map fields, and
\* for paths that go on below a scalar field.
C29_SameValidation ==
    (pc \in {"minted", "failed"} /\ ~cursor.foreign
        /\ ~MarshalFails("Book", cursor.m))
    => (tok.st = "error" <=> ComparerRejects("Book", orderBy))

====
